---------------------------- MODULE Spec2Model ----------------------------
(***************************************************************************)
(* A model of the small-robots archive's post parser                       *)
(* (src/parser/src/lib.rs), compact identifier                             *)
(* (src/datasource/mastodon/src/ident.rs), HTML sanitizer and serializer   *)
(* (src/datasource/mastodon/src/html.rs) and textual identifier            *)
(* (src/datasource/mastodon/src/model.rs).                                 *)
(*                                                                         *)
(* A text is a sequence of one-character strings.  Offsets are character   *)
(* indices (1-based); the source uses byte offsets, which order the same   *)
(* positions.  An Option is a sequence of length at most one: <<>> is      *)
(* None and <<v>> is Some(v).                                              *)
(***************************************************************************)
EXTENDS Integers, Sequences, FiniteSets, TLC

(* ------------------------------ characters ------------------------------ *)

UpperSeq ==
  << "A", "B", "C", "D", "E", "F", "G", "H", "I", "J", "K", "L", "M",
     "N", "O", "P", "Q", "R", "S", "T", "U", "V", "W", "X", "Y", "Z" >>

LowerSeq ==
  << "a", "b", "c", "d", "e", "f", "g", "h", "i", "j", "k", "l", "m",
     "n", "o", "p", "q", "r", "s", "t", "u", "v", "w", "x", "y", "z" >>

DigitSeq == << "0", "1", "2", "3", "4", "5", "6", "7", "8", "9" >>

Range(f) == { f[k] : k \in DOMAIN f }

UpperLetters == Range(UpperSeq)

AsciiLetters == UpperLetters \cup Range(LowerSeq)

AsciiDigits == Range(DigitSeq)

WordChars == AsciiLetters \cup AsciiDigits \cup {"_"}

\* char::is_ascii_digit
IsAsciiDigit(c) == c \in AsciiDigits

\* The value of an ASCII digit.
DigitValue(c) == (CHOOSE k \in DOMAIN DigitSeq : DigitSeq[k] = c) - 1

\* The regex class \s and char::is_whitespace, on the characters of the model.
IsWhitespace(c) == c \in { " ", "\n" }

\* The regex class \w, on the characters of the model.
IsWord(c) == c \in WordChars

\* The regex class [^\w\s].
IsJunk(c) == ~IsWord(c) /\ ~IsWhitespace(c)

\* char::to_lowercase, on the characters of the model.
CharToLower(c) ==
  IF c \in UpperLetters
    THEN LowerSeq[CHOOSE k \in DOMAIN UpperSeq : UpperSeq[k] = c]
    ELSE c

\* str::to_lowercase
ToLowercase(str) == [k \in DOMAIN str |-> CharToLower(str[k])]

(* -------------------------------- strings ------------------------------- *)

\* The text from offset a to offset b inclusive (empty when b < a).
Slice(str, a, b) == SubSeq(str, a, b)

\* The text from offset a to the end.
From(str, a) == SubSeq(str, a, Len(str))

\* The first offset >= k whose character does not satisfy the class, or
\* Len(str) + 1.
RECURSIVE SkipWhitespace(_, _)
SkipWhitespace(str, k) ==
  IF k <= Len(str) /\ IsWhitespace(str[k]) THEN SkipWhitespace(str, k + 1) ELSE k

RECURSIVE SkipJunk(_, _)
SkipJunk(str, k) ==
  IF k <= Len(str) /\ IsJunk(str[k]) THEN SkipJunk(str, k + 1) ELSE k

RECURSIVE SkipNonWhitespace(_, _)
SkipNonWhitespace(str, k) ==
  IF k <= Len(str) /\ ~IsWhitespace(str[k]) THEN SkipNonWhitespace(str, k + 1) ELSE k

\* The first offset >= k of a word character, or Len(str) + 1.
RECURSIVE SkipJunkOrSpace(_, _)
SkipJunkOrSpace(str, k) ==
  IF k <= Len(str) /\ ~IsWord(str[k]) THEN SkipJunkOrSpace(str, k + 1) ELSE k

RECURSIVE SkipWordChars(_, _)
SkipWordChars(str, k) ==
  IF k <= Len(str) /\ IsWord(str[k]) THEN SkipWordChars(str, k + 1) ELSE k

\* The last offset <= k whose character is not whitespace, or 0.
RECURSIVE BackWhitespace(_, _)
BackWhitespace(str, k) ==
  IF k >= 1 /\ IsWhitespace(str[k]) THEN BackWhitespace(str, k - 1) ELSE k

\* str::trim_start, str::trim_end, str::trim
TrimStart(str) == From(str, SkipWhitespace(str, 1))

TrimEnd(str) == Slice(str, 1, BackWhitespace(str, Len(str)))

Trim(str) == TrimEnd(TrimStart(str))

\* The first offset >= k of a character of the set, or 0.
RECURSIVE FindChar(_, _, _)
FindChar(str, chars, k) ==
  IF k > Len(str) THEN 0
  ELSE IF str[k] \in chars THEN k
  ELSE FindChar(str, chars, k + 1)

\* The last offset <= k of the character, or 0.
RECURSIVE FindCharBack(_, _, _)
FindCharBack(str, c, k) ==
  IF k < 1 THEN 0
  ELSE IF str[k] = c THEN k
  ELSE FindCharBack(str, c, k - 1)

\* SplitOnce splitting around the last c, as str::rsplit_once does.
SplitOnceLast(str, c) ==
  LET at == FindCharBack(str, c, Len(str))
  IN  IF at = 0 THEN <<>>
      ELSE << << Slice(str, 1, at - 1), From(str, at + 1) >> >>

\* str::split_once(c): None, or Some(<<before, after>>) around the first c.
SplitOnce(str, c) ==
  LET at == FindChar(str, {c}, 1)
  IN  IF at = 0 THEN <<>>
      ELSE << << Slice(str, 1, at - 1), From(str, at + 1) >> >>

\* str::split_whitespace: the maximal runs of non-whitespace, in order.
RECURSIVE SplitWhitespaceFrom(_, _)
SplitWhitespaceFrom(str, k) ==
  LET a == SkipWhitespace(str, k)
      b == SkipNonWhitespace(str, a)
  IN  IF a > Len(str) THEN <<>>
      ELSE <<Slice(str, a, b - 1)>> \o SplitWhitespaceFrom(str, b)

SplitWhitespace(str) == SplitWhitespaceFrom(str, 1)

(* ------------------------- 32-bit signed integers ----------------------- *)

I32Max == 2147483647

I32Min == (-I32Max) - 1

\* a + b in i32: whether it overflows, and the two's complement result.
AddI32(a, b) ==
  IF b > 0 /\ a > I32Max - b
    THEN [overflow |-> TRUE, val |-> ((a - I32Max) - 1) + ((b - I32Max) - 1)]
  ELSE IF b < 0 /\ a < I32Min - b
    THEN [overflow |-> TRUE, val |-> ((a + I32Max) + 1) + ((b + I32Max) + 1)]
  ELSE [overflow |-> FALSE, val |-> a + b]

\* a - b in i32: whether it overflows, and the two's complement result.
SubI32(a, b) ==
  IF b < 0 /\ a > I32Max + b
    THEN [overflow |-> TRUE, val |-> ((a - I32Max) - 1) - ((b + I32Max) + 1)]
  ELSE IF b > 0 /\ a < I32Min + b
    THEN [overflow |-> TRUE, val |-> ((a + I32Max) + 1) - ((b - I32Max) - 1)]
  ELSE [overflow |-> FALSE, val |-> a - b]

\* Rust's integer division truncates toward zero (a > I32Min here).
DivTrunc(a, b) == IF a >= 0 THEN a \div b ELSE -((-a) \div b)

Abs(a) == IF a < 0 THEN -a ELSE a

Signum(a) == IF a > 0 THEN 1 ELSE IF a < 0 THEN -1 ELSE 0


(* ------------------------------ parse_numbers --------------------------- *)

\* str::parse::<i32> on a non-empty run of ASCII digits: None on overflow.
RECURSIVE ParseI32From(_, _, _)
ParseI32From(buf, k, acc) ==
  IF k > Len(buf) THEN <<acc>>
  ELSE LET d == DigitValue(buf[k])
       IN  IF acc > I32Max \div 10 THEN <<>>
           ELSE IF acc * 10 > I32Max - d THEN <<>>
           ELSE ParseI32From(buf, k + 1, acc * 10 + d)

\* ParseI32 saturating at i32::MAX instead of failing.
ParseI32Saturating(buf) ==
  IF ParseI32From(buf, 1, 0) = <<>> THEN <<I32Max>> ELSE ParseI32From(buf, 1, 0)

ParseI32(buf) == ParseI32From(buf, 1, 0)

\* fn parse_number(buf, neg) inside parse_numbers.
parse_number(buf, neg) ==
  LET n == ParseI32(buf)
  IN  IF n = <<>> THEN <<>> ELSE << n[1] * (IF neg THEN -1 ELSE 1) >>

\* The loop "while x > 0 { major /= 10; dps += 1; x /= 10; }": <<major, dps>>.
RECURSIVE MajorDown(_, _, _)
MajorDown(major, dps, x) ==
  IF x > 0 THEN MajorDown(DivTrunc(major, 10), dps + 1, x \div 10)
  ELSE <<major, dps>>

\* The loop "for _ in 0..dps { major *= 10; }".
RECURSIVE MajorUp(_, _)
MajorUp(major, dps) == IF dps = 0 THEN major ELSE MajorUp(major * 10, dps - 1)

\* first with the lowest digits(n) decimal digits zeroed.
Major(first, n) ==
  LET down == MajorDown(first, 0, n) IN MajorUp(down[1], down[2])

\* The abbreviation branch of numbers_range: major + (n * first.signum()).
Reconstruct(first, n) == AddI32(Major(first, n), n * Signum(first))

\* The "for &n in rest" loop of numbers_range from index k on.  An overflowing
\* addition panics when the build checks overflow and wraps otherwise.
RECURSIVE RangeLoop(_, _, _, _, _)
RangeLoop(ns, k, min_n, max_n, checks) ==
  IF k > Len(ns) THEN [kind |-> "some", min |-> min_n, max |-> max_n]
  ELSE LET first == ns[1]
           abbrev == ns[k] > 0 /\ ns[k] < Abs(first)
           sum == Reconstruct(first, ns[k])
           n == IF abbrev THEN sum.val ELSE ns[k]
       IN  IF abbrev /\ sum.overflow /\ checks THEN [kind |-> "panic"]
           ELSE IF n < min_n THEN RangeLoop(ns, k + 1, n, max_n, checks)
           ELSE IF n > max_n THEN RangeLoop(ns, k + 1, min_n, n, checks)
           ELSE RangeLoop(ns, k + 1, min_n, max_n, checks)

\* numbers_range giving 0..=0 for no number at all.
NumbersRangeOfNone(ns, checks) ==
  IF ns = <<>> THEN [kind |-> "some", min |-> 0, max |-> 0]
  ELSE IF Len(ns) = 1 THEN [kind |-> "some", min |-> ns[1], max |-> ns[1]]
  ELSE RangeLoop(ns, 2, ns[1], ns[1], checks)

\* fn numbers_range: "none", "panic", or "some" with the inclusive range.
numbers_range(ns, checks) ==
  IF ns = <<>> THEN [kind |-> "none"]
  ELSE IF Len(ns) = 1 THEN [kind |-> "some", min |-> ns[1], max |-> ns[1]]
  ELSE RangeLoop(ns, 2, ns[1], ns[1], checks)

(* -------------------------------- parse_cw ------------------------------ *)

Openers == { "[", "(" }

Closers == { "]", ")" }

\* (\S[^\]\)]+)[\]\)] at offset r: the offset of the closing bracket, or 0.
\* The class [^\]\)]+ is greedy and cannot hold a closer, so it runs to the
\* first closer after r + 1 and must hold at least one character.
CwTailEnd(str, r) ==
  IF r > Len(str) \/ IsWhitespace(str[r]) THEN 0
  ELSE LET close == FindChar(str, Closers, r + 1)
       IN  IF close > r + 1 THEN close ELSE 0

\* \W*(\S[^\]\)]+)[\]\)] at offset q with \W* taking w characters, w from the
\* most it can take down to none: <<r, close>> of the first success, or <<>>.
RECURSIVE CwRest(_, _, _)
CwRest(str, q, w) ==
  IF w < 0 THEN <<>>
  ELSE IF CwTailEnd(str, q + w) # 0 THEN << q + w, CwTailEnd(str, q + w) >>
  ELSE CwRest(str, q, w - 1)

\* The most characters \W* can take from offset q.
RECURSIVE NonWordRun(_, _)
NonWordRun(str, q) ==
  IF q <= Len(str) /\ ~IsWord(str[q]) THEN 1 + NonWordRun(str, q + 1) ELSE 0

CwAfter(str, q) == CwRest(str, q, NonWordRun(str, q))

\* (.+:) at offset p with the colon at offset c, c from the last offset .+
\* can reach down to p + 1: the first c after which the rest matches.
RECURSIVE CwWithType(_, _, _)
CwWithType(str, p, c) ==
  IF c <= p THEN <<>>
  ELSE IF str[c] = ":" /\ CwAfter(str, c + 1) # <<>> THEN CwAfter(str, c + 1)
  ELSE CwWithType(str, p, c - 1)

\* The last offset that .+ can reach from p: . does not match a newline.
DotRunEnd(str, p) ==
  LET nl == FindChar(str, {"\n"}, p)
  IN  IF nl = 0 THEN Len(str) ELSE nl - 1

\* CW_RE = ^\s*[\[\(](.+:)?\W*(\S[^\]\)]+)[\]\)] with leftmost-first
\* preference: <<start of group 2, offset of the closing bracket>>, or <<>>.
CwCaptures(str) ==
  LET open == SkipWhitespace(str, 1)
      p == open + 1
      typed == CwWithType(str, p, DotRunEnd(str, p))
  IN  IF open > Len(str) \/ str[open] \notin Openers THEN <<>>
      ELSE IF typed # <<>> THEN typed
      ELSE CwAfter(str, p)

\* fn parse_cw: the remainder and the optional warning.
parse_cw(str) ==
  LET caps == CwCaptures(str)
  IN  IF caps = <<>> THEN [remainder |-> str, output |-> <<>>]
      ELSE [remainder |-> TrimStart(From(str, caps[2] + 1)),
            output |-> << Trim(Slice(str, caps[1], caps[2] - 1)) >>]

(* ------------------------------- parse_names ---------------------------- *)

\* ([Bb][^\w\s]*[Oo][^\w\s]*[Tt]) at offset j: the offset of its last
\* character, or 0.  The junk between the letters cannot hold a letter, so
\* each junk run is the whole run.
BotTokenEnd(str, j) ==
  IF j > Len(str) \/ str[j] \notin {"B", "b"} THEN 0
  ELSE LET o == SkipJunk(str, j + 1)
       IN  IF o > Len(str) \/ str[o] \notin {"O", "o"} THEN 0
           ELSE LET t == SkipJunk(str, o + 1)
                IN  IF t > Len(str) \/ str[t] \notin {"T", "t"} THEN 0 ELSE t

\* ([^\w\s]*[Ss])? after the token ending at offset e: the offset of its last
\* character, or e when the group does not take part.
PluralEnd(str, e) ==
  LET p == SkipJunk(str, e + 1)
  IN  IF p <= Len(str) /\ str[p] \in {"S", "s"} THEN p ELSE e

\* The greatest offset j in lo..hi at which a bot token starts, or 0.
RECURSIVE LastTokenStart(_, _, _)
LastTokenStart(str, lo, hi) ==
  IF hi < lo THEN 0
  ELSE IF BotTokenEnd(str, hi) # 0 THEN hi
  ELSE LastTokenStart(str, lo, hi - 1)

\* One BOT_RE match [start, bot, tend, end]: (\S+) is start..bot-1, group 2 is
\* bot..tend, group 3 is tend+1..end (absent when end = tend).
\* Leftmost-first search from offset k: the match starts at the first
\* non-whitespace offset i whose run of non-whitespace holds a token start
\* after i, and the greedy \S+ reaches the last such token start.
RECURSIVE BotFind(_, _)
BotFind(str, k) ==
  LET i == SkipWhitespace(str, k)
      runEnd == SkipNonWhitespace(str, i) - 1
      j == LastTokenStart(str, i + 1, runEnd)
      tend == BotTokenEnd(str, j)
  IN  IF i > Len(str) THEN <<>>
      ELSE IF j # 0
        THEN << [start |-> i, bot |-> j, tend |-> tend, end |-> PluralEnd(str, tend)] >>
      ELSE BotFind(str, runEnd + 1)

\* captures_iter: the successive non-overlapping matches from offset k on,
\* at most limit of them.
RECURSIVE BotMatchesFrom(_, _, _)
BotMatchesFrom(str, k, limit) ==
  LET m == BotFind(str, k)
  IN  IF limit = 0 \/ m = <<>> THEN <<>>
      ELSE m \o BotMatchesFrom(str, m[1].end + 1, limit - 1)

\* The RobotName pushed for a match.
NameOfMatch(str, m) ==
  [prefix |-> Slice(str, m.start, m.bot - 1),
   suffix |-> Slice(str, m.bot, m.tend),
   plural |-> IF m.end > m.tend THEN << Slice(str, m.tend + 1, m.end) >> ELSE <<>>]

\* PARTIAL_BOT_RE = ^(\w{2,})(-)? on one word: Some(group 1) or None.
PartialCapture(w) ==
  LET e == SkipWordChars(w, 1) - 1
  IN  IF e >= 2 THEN << Slice(w, 1, e) >> ELSE <<>>

\* The filter / map / flatten / filter chain over the words before the first
\* match: the prefixes of the partial names, in order.
RECURSIVE PartialPrefixes(_)
PartialPrefixes(words) ==
  IF words = <<>> THEN <<>>
  ELSE LET w == Head(words)
           cap == PartialCapture(w)
           keep == /\ ToLowercase(w) # <<"a", "n", "d">>
                   /\ cap # <<>>
                   /\ \E k \in DOMAIN cap[1] : ~IsAsciiDigit(cap[1][k])
       IN  (IF keep THEN cap ELSE <<>>) \o PartialPrefixes(Tail(words))

FirstN(seq, n) == SubSeq(seq, 1, IF n < Len(seq) THEN n ELSE Len(seq))

\* The first loop of parse_names: the matches collected, up to target_n.
CollectedMatches(str, target_n) == BotMatchesFrom(str, 1, target_n)

\* UsePartialNames whatever the offset of the first match.
UsePartialAnywhere(matches, target_n) == Len(matches) < target_n

\* let use_partial_names = names.len() < target_n && matches_start > 0;
\* (matches_start is the 0-based offset of the first match).
UsePartialNames(matches, target_n) ==
  Len(matches) < target_n /\ matches[1].start - 1 > 0

\* The partial names inserted before the full names.
PartialNames(str, matches, target_n) ==
  LET diff == target_n - Len(matches)
      before == Slice(str, 1, matches[1].start - 1)
      first == NameOfMatch(str, matches[1])
      found == FirstN(PartialPrefixes(SplitWhitespace(before)), diff)
  IN  [k \in DOMAIN found |->
         [prefix |-> found[k], suffix |-> first.suffix, plural |-> first.plural]]

\* fn parse_names: None, or Some of the remainder, the names and the flag.
parse_names(str, target_n) ==
  LET matches == CollectedMatches(str, target_n)
      full == [k \in DOMAIN matches |-> NameOfMatch(str, matches[k])]
      partial == UsePartialNames(matches, target_n)
  IN  IF matches = <<>> THEN <<>>
      ELSE << [remainder |-> From(str, matches[Len(matches)].end + 1),
               names |-> (IF partial THEN PartialNames(str, matches, target_n)
                                     ELSE <<>>) \o full,
               partial_names |-> partial] >>

(* -------------------------------- parse_group --------------------------- *)

MAX_GROUP_SIZE == 5

\* NumNumbers without the cap at MAX_GROUP_SIZE on a width that converts.
NumNumbersUncapped(min, max, checks) ==
  LET diff == SubI32(max, min)
  IN  IF diff.overflow /\ checks THEN [kind |-> "panic"]
      ELSE [kind |-> "some",
            n |-> IF diff.val = I32Max \/ diff.val + 1 < 0 THEN MAX_GROUP_SIZE
                  ELSE diff.val + 1]

\* num_numbers of parse_group, from the range: "panic" when the subtraction
\* overflows in a build that checks overflow, else the count.  The wrapped
\* difference plus one is None at i32::MAX, fails the usize conversion when
\* negative, and both fall back to MAX_GROUP_SIZE.
NumNumbers(min, max, checks) ==
  LET diff == SubI32(max, min)
      plus1 == IF diff.val = I32Max THEN <<>> ELSE << diff.val + 1 >>
      asUsize == IF plus1 # <<>> /\ plus1[1] >= 0 THEN plus1 ELSE <<>>
  IN  IF diff.overflow /\ checks THEN [kind |-> "panic"]
      ELSE [kind |-> "some",
            n |-> IF asUsize = <<>> THEN MAX_GROUP_SIZE
                  ELSE IF asUsize[1] < MAX_GROUP_SIZE THEN asUsize[1]
                  ELSE MAX_GROUP_SIZE]

\* BODY_RE = (?s)\w.*$ : the text from the first word character on, or "".
Body(str) ==
  LET w == SkipJunkOrSpace(str, 1) IN From(str, w)

\* RobotNumber numbering from one instead of zero.
RobotNumberFromOne(min_number, i) == AddI32(min_number, i + 1)

\* number: min_number + (i as i32), for the 0-based position i.
RobotNumber(min_number, i) == AddI32(min_number, i)

\* RobotNameOf keeping the plural whatever the flag.
RobotNameKeepsPlural(name, partial) == name

\* The name of a robot: the plural is dropped when partial names were used.
RobotNameOf(name, partial) ==
  IF partial THEN [name EXCEPT !.plural = <<>>] ELSE name

\* The robots of the group, numbered in order.
Robots(names, partial, min_number) ==
  [k \in DOMAIN names |->
     [number |-> RobotNumber(min_number, k - 1).val,
      name |-> RobotNameOf(names[k], partial)]]

\* Whether numbering the robots overflows.
RobotsOverflow(names, min_number) ==
  \E k \in DOMAIN names : RobotNumber(min_number, k - 1).overflow

(* --------------------------------- inputs ------------------------------- *)

MaxNumChunks == 3

MaxNameChunks == 3

MaxGroupNameChunks == 2

MaxTargetN == 2

RECURSIVE Flatten(_)
Flatten(chunks) ==
  IF chunks = <<>> THEN <<>> ELSE Head(chunks) \o Flatten(Tail(chunks))

SeqsUpTo(S, n) == UNION { [1..k -> S] : k \in 0..n }

Big7 == << "2", "1", "4", "7", "4", "8", "3", "6", "4", "7" >>

Big8 == << "2", "1", "4", "7", "4", "8", "3", "6", "4", "8" >>

Big0 == << "2", "1", "4", "7", "4", "8", "3", "6", "4", "0" >>

\* The texts given to parse_numbers: pieces of a numbers segment, followed by
\* nothing, by the closing parenthesis, or by it and more text.
NumChunks == { <<"1">>, <<"8">>, <<"-">>, <<"-", "1">>, <<",">>, <<" ">>, Big7, Big8 }

NumTails == { <<>>, <<")">>, <<")", " ", "1", ")", " ">> }

NumbersTexts ==
  { Flatten(c) \o tail : c \in SeqsUpTo(NumChunks, MaxNumChunks), tail \in NumTails }

\* The texts given to parse_names.
NameChunks ==
  { <<"A", "a">>, <<"b", "o", "t">>, <<"B", ".", "O", ".", "T", ".", "S">>,
    <<"s">>, <<" ">>, <<"-">>, <<"a", "n", "d">>, <<"7", "7">> }

NamesTexts == { Flatten(c) : c \in SeqsUpTo(NameChunks, MaxNameChunks) }

\* The texts given to parse_group: an optional content warning, a numbers
\* segment, the closing parenthesis and the names.
GroupHeads ==
  { <<>>,
    <<" ", "[", "C", "N", ":", " ", "x", "y", "]", " ">>,
    <<"(", "!", "x", "y", ")">> }

GroupSegments ==
  { <<"7">>,
    <<"7", "-", "8">>,
    <<"1", "8", "/", "9">>,
    <<"7", ",", "9">>,
    <<"-", "1", ",", "8">>,
    <<"x">>,
    Big8,
    Big7 \o <<",">> \o Big0,
    Big7 \o <<",", "8">>,
    <<"0", ",">> \o Big7,
    <<"-">> \o Big0 \o <<",">> \o Big7,
    <<"-">> \o Big0 \o <<",", "8", ",">> \o Big7 }

GroupNameChunks ==
  { <<"A", "a", "b", "o", "t", " ">>,
    <<"B", "b", "o", "t", "s", ".", " ">>,
    <<"S", "a", "-", " ">>,
    <<"a", "n", "d", " ">>,
    <<"C", "b", "o", "t", ",", "D", "b", "o", "t", " ", "E", "b", "o", "t", " ",
      "F", "b", "o", "t", "s", " ">> }

GroupTexts ==
  { h \o g \o <<")", " ">> \o Flatten(c) :
      h \in GroupHeads, g \in GroupSegments,
      c \in SeqsUpTo(GroupNameChunks, MaxGroupNameChunks) }

(* ---------------------------------- Ident ------------------------------- *)

\* The code points of the model: ASCII "a", "e", "E" and "-", the combining
\* acute accent U+0301, the precomposed U+00E1, U+00E9 and U+00C9, the CJK
\* letter U+65E5 and the mathematical bold capital A U+1D400.
Utf8Len(c) ==
  CASE c \in { "a", "e", "E", "-" } -> 1
    [] c \in { "acute", "a_acute", "e_acute", "E_acute" } -> 2
    [] c = "U65E5" -> 3
    [] c = "U1D400" -> 4

\* char::is_alphanumeric
IsAlphanumeric(c) == c \notin { "-", "acute" }

\* char::to_lowercase (one code point for each code point of the model).
IdentToLower(c) ==
  CASE c = "E" -> "e"
    [] c = "E_acute" -> "e_acute"
    [] OTHER -> c

\* The canonical composition of a starter with the acute accent, or None.
ComposeAcute(c) ==
  CASE c = "a" -> <<"a_acute">>
    [] c = "e" -> <<"e_acute">>
    [] c = "E" -> <<"E_acute">>
    [] OTHER -> <<>>

\* The canonical decomposition of a code point.
Decompose(c) ==
  CASE c = "a_acute" -> <<"a", "acute">>
    [] c = "e_acute" -> <<"e", "acute">>
    [] c = "E_acute" -> <<"E", "acute">>
    [] OTHER -> <<c>>

RECURSIVE DecomposeAll(_)
DecomposeAll(str) ==
  IF str = <<>> THEN <<>> ELSE Decompose(Head(str)) \o DecomposeAll(Tail(str))

\* Canonical composition of a decomposed text onto the output so far: an
\* accent joins the code point before it when that is a starter with a
\* composite; an accent left in place blocks the accents after it.
RECURSIVE ComposeOnto(_, _)
ComposeOnto(out, str) ==
  IF str = <<>> THEN out
  ELSE LET c == Head(str)
           joined == IF c = "acute" /\ out # <<>> THEN ComposeAcute(out[Len(out)])
                     ELSE <<>>
       IN  IF joined # <<>>
             THEN ComposeOnto(SubSeq(out, 1, Len(out) - 1) \o joined, Tail(str))
             ELSE ComposeOnto(Append(out, c), Tail(str))

\* str.chars().nfc()
Nfc(str) == ComposeOnto(<<>>, DecomposeAll(str))

RECURSIVE FilterAlphanumeric(_)
FilterAlphanumeric(str) ==
  IF str = <<>> THEN <<>>
  ELSE (IF IsAlphanumeric(Head(str)) THEN <<Head(str)>> ELSE <<>>)
         \o FilterAlphanumeric(Tail(str))

\* s.chars().nfc().flat_map(char::to_lowercase).filter(|c| c.is_alphanumeric())
IdentChars(str) ==
  LET composed == Nfc(str)
  IN  FilterAlphanumeric([k \in DOMAIN composed |-> IdentToLower(composed[k])])

\* A byte of the buffer as "[0u8; N]" leaves it.
ZeroByte == <<"", 0>>

\* The capacity of Ident's name.
IDENT_NAME_LEN == 16

\* The loop after a code point that does not fit going on with the next ones.
AfterNoFitContinue(rest) == Tail(rest)

\* "if buf_slice.len() < c.len_utf8() { break; }": nothing more is read.
AfterNoFit(rest) == <<>>

\* c.encode_utf8(buf_slice): the bytes of c written after the first len bytes.
\* A byte is <<c, i>>, the i-th byte of c's encoding, or ZeroByte.
EncodeUtf8(name, len, c) ==
  [j \in DOMAIN name |->
     IF len < j /\ j <= len + Utf8Len(c) THEN <<c, j - len>> ELSE name[j]]

\* NameLenOf accepting only lengths below the capacity.
NameLenBelowCapacity(len) ==
  IF len = 0 \/ len >= IDENT_NAME_LEN THEN <<>> ELSE <<len>>

\* NameLenOf without the NonZeroU8 check.
NameLenAllowsZero(len) == IF len > 255 THEN <<>> ELSE <<len>>

\* u8::try_from(name_len).ok().and_then(NonZeroU8::new)
NameLenOf(len) == IF len > 255 \/ len = 0 THEN <<>> ELSE <<len>>

\* str_to_ident_name's loop, lines 99-111, run to its end on the code points
\* rest: the (buf, len) it returns.
RECURSIVE EncodeAll(_, _, _)
EncodeAll(rest, name, len) ==
  IF rest = <<>> THEN [name |-> name, len |-> len]
  ELSE IF IDENT_NAME_LEN - len < Utf8Len(Head(rest))
    THEN EncodeAll(AfterNoFit(rest), name, len)
  ELSE EncodeAll(Tail(rest), EncodeUtf8(name, len, Head(rest)),
                 len + Utf8Len(Head(rest)))

\* Ident::new(season, num, prefix) as a value: Some(the Ident) or None for Err.
IdentOf(season, num, prefix) ==
  LET r == EncodeAll(IdentChars(prefix),
                     [j \in 1..IDENT_NAME_LEN |-> ZeroByte], 0)
      name_len == NameLenOf(r.len)
  IN  IF name_len = <<>> THEN <<>>
      ELSE << [season |-> season, num |-> num,
               name_len |-> name_len[1], name |-> r.name] >>

\* The value of a byte of the buffer.
ByteValue(b) ==
  CASE b = ZeroByte -> 0
    [] b = <<"a", 1>> -> 97
    [] b = <<"e", 1>> -> 101
    [] b = <<"E", 1>> -> 69
    [] b = <<"-", 1>> -> 45
    [] b = <<"acute", 1>> -> 204
    [] b = <<"acute", 2>> -> 129
    [] b \in { <<"a_acute", 1>>, <<"e_acute", 1>>, <<"E_acute", 1>> } -> 195
    [] b = <<"a_acute", 2>> -> 161
    [] b = <<"e_acute", 2>> -> 169
    [] b = <<"E_acute", 2>> -> 137
    [] b = <<"U65E5", 1>> -> 230
    [] b = <<"U65E5", 2>> -> 151
    [] b = <<"U65E5", 3>> -> 165
    [] b = <<"U1D400", 1>> -> 240
    [] b = <<"U1D400", 2>> -> 157
    [] b = <<"U1D400", 3>> -> 144
    [] b = <<"U1D400", 4>> -> 128

\* Ord for integers.
CmpInt(x, y) == IF x < y THEN "Less" ELSE IF x > y THEN "Greater" ELSE "Equal"

\* Ord for str and for [u8]: the first byte that differs decides, then the
\* lengths.
RECURSIVE CmpBytes(_, _)
CmpBytes(x, y) ==
  IF x = <<>> \/ y = <<>> THEN CmpInt(Len(x), Len(y))
  ELSE IF ByteValue(Head(x)) # ByteValue(Head(y))
    THEN CmpInt(ByteValue(Head(x)), ByteValue(Head(y)))
  ELSE CmpBytes(Tail(x), Tail(y))

\* The lexicographic comparison of derive(Ord): the first field that is not
\* Equal decides.
RECURSIVE CmpFields(_)
CmpFields(fields) ==
  IF fields = <<>> THEN "Equal"
  ELSE IF Head(fields) # "Equal" THEN Head(fields)
  ELSE CmpFields(Tail(fields))

\* Ident::name taking the whole buffer.
IdentNameWhole(id) == id.name

\* Ident::name: the first name_len bytes of the buffer.
IdentName(id) == SubSeq(id.name, 1, id.name_len)

\* Ident::decode
IdentDecode(id) ==
  [season |-> id.season, num |-> id.num, name |-> IdentName(id)]

\* derive(PartialEq) for DecodedIdent
DecodedEq(x, y) ==
  x.season = y.season /\ x.num = y.num /\ x.name = y.name

\* derive(Ord) for DecodedIdent: season, then num, then name.
DecodedCmp(x, y) ==
  CmpFields(<< CmpInt(x.season, y.season), CmpInt(x.num, y.num),
               CmpBytes(x.name, y.name) >>)

\* <Ident as PartialEq>::eq
IdentEq(a, b) == DecodedEq(IdentDecode(a), IdentDecode(b))

\* The comparison that derive(Ord) would give Ident: the fields as stored.
IdentCmpStored(a, b) ==
  CmpFields(<< CmpInt(a.season, b.season), CmpInt(a.num, b.num),
               CmpInt(a.name_len, b.name_len), CmpBytes(a.name, b.name) >>)

\* <Ident as Ord>::cmp
IdentCmp(a, b) == DecodedCmp(IdentDecode(a), IdentDecode(b))

MaxIdentPad == 15

MaxIdentTail == 2

IdentAlphabet == { "a", "E", "-", "acute", "e_acute", "U65E5", "U1D400" }

\* The prefixes given to Ident::new: a run of "a" and a tail over the alphabet.
IdentPrefixes ==
  { [k \in 1..n |-> "a"] \o tail :
      n \in 0..MaxIdentPad, tail \in SeqsUpTo(IdentAlphabet, MaxIdentTail) }

\* The (season, num) pairs given to Ident::new: the ends of u8 and i16.
IdentNumbers == { <<0, -32768>>, <<255, 32767>> }

\* The prefixes of the identifiers that are compared: one and two code
\* points, names that normalize alike, names of 15 and 16 bytes and one that
\* is truncated.
ComparedPrefixes ==
  { <<"a">>, <<"a", "a">>, <<"a", "-">>, <<"E">>, <<"e_acute">>,
    <<"E", "acute">>, <<"a", "e_acute">>, <<"U65E5">>, <<"U1D400">>,
    [k \in 1..IDENT_NAME_LEN - 1 |-> "a"],
    [k \in 1..IDENT_NAME_LEN |-> "a"],
    [k \in 1..IDENT_NAME_LEN + 1 |-> "a"] }

\* The identifiers that are compared: every season and num of IdentNumbers
\* with every prefix.
ComparedIdents ==
  UNION { { IdentOf(p[1], q[2], r) : r \in ComparedPrefixes } :
            p \in IdentNumbers, q \in IdentNumbers }

(* ------------------------------- sanitizer ------------------------------ *)

\* A node of the generic tree (markup5ever_rcdom::Node) is a record of its
\* kind, name, attrs (pairs <<name, value>>), contents and children.  A node
\* of the restricted tree is [kind |-> "Element", tag, attrs, children] or
\* [kind |-> "Text", text].

\* The nodes of markup5ever_rcdom, by kind.
TextNode(contents) ==
  [kind |-> "Text", name |-> <<>>, attrs |-> <<>>, contents |-> contents,
   children |-> <<>>]

LeafNode(kind) ==
  [kind |-> kind, name |-> <<>>, attrs |-> <<>>, contents |-> <<>>,
   children |-> <<>>]

ElementNode(name, attrs, children) ==
  [kind |-> "Element", name |-> name, attrs |-> attrs, contents |-> <<>>,
   children |-> children]

DocumentNode(children) ==
  [kind |-> "Document", name |-> <<>>, attrs |-> <<>>, contents |-> <<>>,
   children |-> children]

\* MdonHtmlTag, each tag as the name that scribe gives it.
MdonHtmlTag ==
  { <<"p">>, <<"b", "r">>, <<"a">>, <<"d", "e", "l">>, <<"p", "r", "e">>,
    <<"c", "o", "d", "e">>, <<"e", "m">>, <<"s", "t", "r", "o", "n", "g">>,
    <<"b">>, <<"i">>, <<"u">>, <<"u", "l">>, <<"o", "l">>, <<"l", "i">>,
    <<"b", "l", "o", "c", "k", "q", "u", "o", "t", "e">> }

\* MdonHtmlAttr, each attribute as the name that scribe gives it.
MdonHtmlAttr ==
  { <<"h", "r", "e", "f">>, <<"s", "t", "a", "r", "t">>,
    <<"r", "e", "v", "e", "r", "s", "e", "d">>, <<"v", "a", "l", "u", "e">> }

\* TryUnscribe with enumscribe(case_insensitive): Some(the variant) or None.
try_unscribe(variants, local) ==
  IF ToLowercase(local) \in variants THEN << ToLowercase(local) >> ELSE <<>>

\* is_attr_valid accepting every recognized attribute on every tag.
IsAttrValidAnyTag(tag, attr) == TRUE

\* MdonHtmlTag::is_attr_valid
is_attr_valid(tag, attr) ==
  \/ tag = <<"a">> /\ attr = <<"h", "r", "e", "f">>
  \/ tag = <<"o", "l">> /\ attr \in { <<"s", "t", "a", "r", "t">>,
                                      <<"r", "e", "v", "e", "r", "s", "e", "d">> }
  \/ tag = <<"l", "i">> /\ attr = <<"v", "a", "l", "u", "e">>

\* filter_map(|attr| MdonHtmlAttr::try_unscribe(..).map(|name| (name, value)))
RECURSIVE RecognizedAttrs(_)
RecognizedAttrs(attrs) ==
  IF attrs = <<>> THEN <<>>
  ELSE LET attr == try_unscribe(MdonHtmlAttr, Head(attrs)[1])
       IN  (IF attr = <<>> THEN <<>> ELSE << <<attr[1], Head(attrs)[2]>> >>)
             \o RecognizedAttrs(Tail(attrs))

\* filter(|(attr, _)| tag.is_attr_valid(*attr))
RECURSIVE ValidAttrs(_, _)
ValidAttrs(tag, attrs) ==
  IF attrs = <<>> THEN <<>>
  ELSE (IF is_attr_valid(tag, Head(attrs)[1]) THEN << Head(attrs) >> ELSE <<>>)
         \o ValidAttrs(tag, Tail(attrs))

\* MdonHtmlElem::new
MdonHtmlElem(tag, attrs, children) ==
  [kind |-> "Element", tag |-> tag, attrs |-> ValidAttrs(tag, attrs),
   children |-> children]

\* MdonHtmlNode::Text
MdonHtmlText(text) == [kind |-> "Text", text |-> text]

\* The number of leading Text nodes of a sequence of restricted nodes.
RECURSIVE TextRun(_)
TextRun(nodes) ==
  IF nodes # <<>> /\ Head(nodes).kind = "Text" THEN 1 + TextRun(Tail(nodes)) ELSE 0

RECURSIVE ConcatTexts(_)
ConcatTexts(nodes) ==
  IF nodes = <<>> THEN <<>> ELSE Head(nodes).text \o ConcatTexts(Tail(nodes))

\* The iterator passing every node through as it is.
NodeIterUnmerged(nodes) == nodes

\* MdonHtmlNodeIter collected: an Element passes through, a Text takes up
\* the Text nodes that follow it.
RECURSIVE MdonHtmlNodeIter(_)
MdonHtmlNodeIter(nodes) ==
  IF nodes = <<>> THEN <<>>
  ELSE IF Head(nodes).kind = "Element"
    THEN << Head(nodes) >> \o MdonHtmlNodeIter(Tail(nodes))
  ELSE LET run == TextRun(nodes)
       IN  << MdonHtmlText(ConcatTexts(SubSeq(nodes, 1, run))) >>
             \o MdonHtmlNodeIter(SubSeq(nodes, run + 1, Len(nodes)))

\* max_depth.checked_sub(1) going below zero only after one more level.
CheckedSubLate(max_depth) == IF max_depth < 0 THEN <<>> ELSE << max_depth - 1 >>

\* max_depth.checked_sub(1)
CheckedSub(max_depth) == IF max_depth = 0 THEN <<>> ELSE << max_depth - 1 >>

\* An unrecognized element dropped with its children.
UnwrapDropped(children) == <<>>

\* "None => Inr(children)": the children of an unrecognized element.
Unwrap(children) == children

RECURSIVE conv_markup5ever_node(_, _)
RECURSIVE FlatMapConv(_, _)

\* flat_map(|node| conv_markup5ever_node(node, max_depth) ...): the nodes of
\* every Inl and Inr, in order.
FlatMapConv(nodes, max_depth) ==
  IF nodes = <<>> THEN <<>>
  ELSE conv_markup5ever_node(Head(nodes), max_depth)
         \o FlatMapConv(Tail(nodes), max_depth)

\* MdonHtmlNode::conv_markup5ever_nodes_all
conv_markup5ever_nodes_all(nodes, max_depth) ==
  MdonHtmlNodeIter(FlatMapConv(nodes, max_depth))

\* conv_markup5ever_node converting the children of a Document node as it
\* does those of an unrecognized element.
ConvThroughDocuments(node, max_depth) ==
  LET budget == CheckedSub(max_depth)
  IN  IF budget = <<>> THEN <<>>
      ELSE CASE node.kind = "Text" -> << MdonHtmlText(node.contents) >>
             [] node.kind = "Document" ->
                  conv_markup5ever_nodes_all(node.children, budget[1])
             [] node.kind = "Element" ->
                  LET children == conv_markup5ever_nodes_all(node.children, budget[1])
                      tag == try_unscribe(MdonHtmlTag, node.name)
                  IN  IF tag = <<>> THEN Unwrap(children)
                      ELSE << MdonHtmlElem(tag[1], RecognizedAttrs(node.attrs),
                                           children) >>
             [] OTHER -> <<>>

\* MdonHtmlNode::conv_markup5ever_node, folded: <<node>> for Inl(node) and the
\* nodes for Inr(nodes).
conv_markup5ever_node(node, max_depth) ==
  LET budget == CheckedSub(max_depth)
  IN  IF budget = <<>> THEN <<>>
      ELSE CASE node.kind = "Text" -> << MdonHtmlText(node.contents) >>
             [] node.kind = "Element" ->
                  LET children == conv_markup5ever_nodes_all(node.children, budget[1])
                      tag == try_unscribe(MdonHtmlTag, node.name)
                  IN  IF tag = <<>> THEN Unwrap(children)
                      ELSE << MdonHtmlElem(tag[1], RecognizedAttrs(node.attrs),
                                           children) >>
             [] OTHER -> <<>>

\* MdonHtmlDoc::from_markup5ever_node: Some(the roots) or None.
from_markup5ever_node(node, max_depth) ==
  IF node.kind # "Document" THEN <<>>
  ELSE << conv_markup5ever_nodes_all(node.children, max_depth) >>

(* ------------------------------ from_html_str --------------------------- *)

\* html5ever's parse_fragment with the context element body, on the HTML
\* that the serializer writes with the tags blockquote, ol and br: start
\* tags with attributes in apostrophes, end tags, text, and the six named
\* character references.  The tree under construction is the stack of open
\* elements, each a record [name, attrs, children], on top of the root html.

Blockquote == <<"b", "l", "o", "c", "k", "q", "u", "o", "t", "e">>

\* The named character references, each with the character it stands for.
CharRefs ==
  { << <<"&", "a", "m", "p", ";">>, "&" >>,
    << <<"&", "n", "b", "s", "p", ";">>, "U00A0" >>,
    << <<"&", "q", "u", "o", "t", ";">>, "\"" >>,
    << <<"&", "a", "p", "o", "s", ";">>, "'" >>,
    << <<"&", "l", "t", ";">>, "<" >>,
    << <<"&", "g", "t", ";">>, ">" >> }

\* The character reference at offset k of str, or none.
CharRefAt(str, k) ==
  LET at == { r \in CharRefs : /\ k + Len(r[1]) - 1 <= Len(str)
                               /\ SubSeq(str, k, k + Len(r[1]) - 1) = r[1] }
  IN  IF at = {} THEN <<>> ELSE << CHOOSE r \in at : TRUE >>

\* The character that the tokenizer emits at offset k, and the offset after it.
CharAt(str, k) ==
  LET ref == CharRefAt(str, k)
  IN  IF str[k] = "&" /\ ref # <<>>
        THEN [char |-> ref[1][2], next |-> k + Len(ref[1][1])]
        ELSE [char |-> str[k], next |-> k + 1]

\* The offset of the first character of str at or after k that is in stops.
RECURSIVE ScanTo(_, _, _)
ScanTo(str, k, stops) ==
  IF k > Len(str) \/ str[k] \in stops THEN k ELSE ScanTo(str, k + 1, stops)

\* The characters of str from k up to but not including e, references decoded.
RECURSIVE DecodeChars(_, _, _)
DecodeChars(str, k, e) ==
  IF k >= e THEN <<>>
  ELSE LET c == CharAt(str, k)
       IN  << c.char >> \o DecodeChars(str, c.next, e)

\* The attributes of a start tag from offset k on, each " name='value'", and
\* the offset after the tag's ">".
RECURSIVE TagAttrs(_, _)
TagAttrs(str, k) ==
  IF k > Len(str) THEN [attrs |-> <<>>, next |-> k]
  ELSE IF str[k] = ">" THEN [attrs |-> <<>>, next |-> k + 1]
  ELSE IF str[k] = " " THEN TagAttrs(str, k + 1)
  ELSE LET eq == ScanTo(str, k, { "=" })
           close == ScanTo(str, eq + 2, { "'" })
           rest == TagAttrs(str, close + 1)
       IN  [attrs |-> << << ToLowercase(SubSeq(str, k, eq - 1)),
                           DecodeChars(str, eq + 2, close) >> >> \o rest.attrs,
            next |-> rest.next]

Frame(name, attrs) == [name |-> name, attrs |-> attrs, children |-> <<>>]

\* The stack with the node appended to the children of the current node.
AppendNode(stack, node) ==
  [stack EXCEPT ![Len(stack)].children = @ \o << node >>]

\* "Insert a character": into the Text that is the last child of the current
\* node, or else as a new Text.
InsertChar(stack, c) ==
  LET children == stack[Len(stack)].children
  IN  IF children # <<>> /\ children[Len(children)].kind = "Text"
        THEN [stack EXCEPT ![Len(stack)].children[Len(children)].contents = @ \o << c >>]
        ELSE AppendNode(stack, TextNode(<< c >>))

\* The stack with its current node popped.
PopFrame(stack) ==
  LET top == stack[Len(stack)]
  IN  AppendNode(SubSeq(stack, 1, Len(stack) - 1),
                 ElementNode(top.name, top.attrs, top.children))

\* The stack popped until an element of the name has been popped.
RECURSIVE PopUntil(_, _)
PopUntil(stack, name) ==
  IF stack[Len(stack)].name = name THEN PopFrame(stack)
  ELSE PopUntil(PopFrame(stack), name)

\* A start tag in the insertion mode "in body": br is inserted and popped at
\* once, blockquote and ol are inserted and stay open.
StartTag(stack, name, attrs) ==
  IF name = <<"b", "r">> THEN AppendNode(stack, ElementNode(name, attrs, <<>>))
  ELSE stack \o << Frame(name, attrs) >>

\* An end tag in the insertion mode "in body": </br> acts as <br>; an end tag
\* without its element in scope is ignored; otherwise the stack is popped up
\* to that element.
EndTag(stack, name) ==
  IF name = <<"b", "r">> THEN AppendNode(stack, ElementNode(name, <<>>, <<>>))
  ELSE IF \E j \in 2..Len(stack) : stack[j].name = name THEN PopUntil(stack, name)
  ELSE stack

\* The end of the input: the elements still open are left as they are.
RECURSIVE PopAll(_)
PopAll(stack) == IF Len(stack) = 1 THEN stack ELSE PopAll(PopFrame(stack))

\* The tokenizer and the tree builder from offset k on.
RECURSIVE TreeBuild(_, _, _)
TreeBuild(str, k, stack) ==
  IF k > Len(str) THEN PopAll(stack)
  ELSE IF str[k] = "<" /\ k < Len(str) /\ str[k + 1] = "/"
    THEN LET e == ScanTo(str, k, { ">" })
         IN  TreeBuild(str, e + 1, EndTag(stack, ToLowercase(SubSeq(str, k + 2, e - 1))))
  ELSE IF str[k] = "<"
    THEN LET e == ScanTo(str, k, { " ", ">" })
             tag == TagAttrs(str, e)
         IN  TreeBuild(str, tag.next,
                       StartTag(stack, ToLowercase(SubSeq(str, k + 1, e - 1)), tag.attrs))
  ELSE LET c == CharAt(str, k)
       IN  TreeBuild(str, c.next, InsertChar(stack, c.char))

\* parse_fragment(RcDom::default(), .., QualName::new(None, ns!(html),
\* local_name!("body")), vec![]): the document, whose only child is the root
\* element html with the parsed nodes.
parse_fragment(str) ==
  LET root == TreeBuild(str, 1, << Frame(<<"h", "t", "m", "l">>, <<>>) >>)[1]
  IN  DocumentNode(<< ElementNode(root.name, root.attrs, root.children) >>)

\* MdonHtmlDoc::from_html_str
from_html_str(str, max_depth) == from_markup5ever_node(parse_fragment(str), max_depth)

(* ------------------------------- serializer ----------------------------- *)

\* escape_char leaving the apostrophe as it is.
EscapeCharKeepsApos(c) ==
  CASE c = "&" -> << <<"&", "a", "m", "p", ";">> >>
    [] c = "\n" -> << <<"&", "n", "b", "s", "p", ";">> >>
    [] c = "\"" -> << <<"&", "q", "u", "o", "t", ";">> >>
    [] c = "<" -> << <<"&", "l", "t", ";">> >>
    [] c = ">" -> << <<"&", "g", "t", ";">> >>
    [] OTHER -> <<>>

\* escape_char: Some(the escape sequence) or None.
escape_char(c) ==
  CASE c = "&" -> << <<"&", "a", "m", "p", ";">> >>
    [] c = "\n" -> << <<"&", "n", "b", "s", "p", ";">> >>
    [] c = "\"" -> << <<"&", "q", "u", "o", "t", ";">> >>
    [] c = "'" -> << <<"&", "a", "p", "o", "s", ";">> >>
    [] c = "<" -> << <<"&", "l", "t", ";">> >>
    [] c = ">" -> << <<"&", "g", "t", ";">> >>
    [] OTHER -> <<>>

\* Display for EscapeHtml
RECURSIVE EscapeHtml(_)
EscapeHtml(str) ==
  IF str = <<>> THEN <<>>
  ELSE LET escaped == escape_char(Head(str))
       IN  (IF escaped # <<>> THEN escaped[1] ELSE << Head(str) >>)
             \o EscapeHtml(Tail(str))

\* write!(f, " {}='{}'", attr.scribe(), EscapeHtml(val)) for each attribute
RECURSIVE FmtAttrs(_)
FmtAttrs(attrs) ==
  IF attrs = <<>> THEN <<>>
  ELSE << " " >> \o Head(attrs)[1] \o << "=", "'" >> \o EscapeHtml(Head(attrs)[2])
         \o << "'" >> \o FmtAttrs(Tail(attrs))

\* The children and the closing tag written for every element.
FmtClosedAlways(children, inner, tag_str) ==
  inner \o << "<", "/" >> \o tag_str \o << ">" >>

\* "if !self.children.is_empty() { ... write!(f, "</{}>", tag_str) }", where
\* inner is what the loop over the children wrote.
FmtClosed(children, inner, tag_str) ==
  IF children # <<>> THEN inner \o << "<", "/" >> \o tag_str \o << ">" >> ELSE <<>>

RECURSIVE MdonHtmlNodeFmt(_)
RECURSIVE FmtAll(_)

\* write!(f, "{}", node) for each node of a sequence
FmtAll(nodes) ==
  IF nodes = <<>> THEN <<>>
  ELSE MdonHtmlNodeFmt(Head(nodes)) \o FmtAll(Tail(nodes))

\* Display for MdonHtmlElem
MdonHtmlElemFmt(elem) ==
  << "<" >> \o elem.tag \o FmtAttrs(elem.attrs) \o << ">" >>
    \o FmtClosed(elem.children, FmtAll(elem.children), elem.tag)

\* Display for MdonHtmlNode
MdonHtmlNodeFmt(node) ==
  IF node.kind = "Element" THEN MdonHtmlElemFmt(node) ELSE EscapeHtml(node.text)

\* Display for MdonHtmlDoc
MdonHtmlDocFmt(roots) == FmtAll(roots)

(* ---------------------- PostHtmlDoc (sbbarch_mastodon) ------------------ *)

\* PostHtmlTag, each tag as the name that scribe gives it.
PostHtmlTag ==
  { <<"p">>, <<"b", "r">>, <<"a">>, <<"d", "e", "l">>, <<"p", "r", "e">>,
    <<"c", "o", "d", "e">>, <<"e", "m">>, <<"s", "t", "r", "o", "n", "g">>,
    <<"b">>, <<"i">>, <<"u">>, <<"u", "l">>, <<"o", "l">>, <<"l", "i">>,
    <<"b", "l", "o", "c", "k", "q", "u", "o", "t", "e">> }

\* PostHtmlAttr, each attribute as the name that scribe gives it.
PostHtmlAttr ==
  { <<"h", "r", "e", "f">>, <<"s", "t", "a", "r", "t">>,
    <<"r", "e", "v", "e", "r", "s", "e", "d">>, <<"v", "a", "l", "u", "e">> }

\* PostHtmlTag::is_attr_valid
PostHtmlTag_is_attr_valid(tag, attr) ==
  \/ tag = <<"a">> /\ attr = <<"h", "r", "e", "f">>
  \/ tag = <<"o", "l">> /\ attr \in { <<"s", "t", "a", "r", "t">>,
                                      <<"r", "e", "v", "e", "r", "s", "e", "d">> }
  \/ tag = <<"l", "i">> /\ attr = <<"v", "a", "l", "u", "e">>

\* PostHtmlAttrs without the filter on is_attr_valid.
RECURSIVE PostHtmlAttrsUnfiltered(_, _)
PostHtmlAttrsUnfiltered(tag, attrs) ==
  IF attrs = <<>> THEN <<>>
  ELSE LET attr == try_unscribe(PostHtmlAttr, Head(attrs)[1])
       IN  (IF attr # <<>> THEN << <<attr[1], Head(attrs)[2]>> >> ELSE <<>>)
             \o PostHtmlAttrsUnfiltered(tag, Tail(attrs))

\* attrs.iter().filter_map(|attr| PostHtmlAttr::try_unscribe(..).map(..))
\*   .filter(|(name, _)| tag.is_attr_valid(*name)).collect()
RECURSIVE PostHtmlAttrs(_, _)
PostHtmlAttrs(tag, attrs) ==
  IF attrs = <<>> THEN <<>>
  ELSE LET attr == try_unscribe(PostHtmlAttr, Head(attrs)[1])
       IN  (IF attr # <<>> /\ PostHtmlTag_is_attr_valid(tag, attr[1])
              THEN << <<attr[1], Head(attrs)[2]>> >> ELSE <<>>)
             \o PostHtmlAttrs(tag, Tail(attrs))

\* PostHtmlElem { tag, attrs, children }
PostHtmlElem(tag, attrs, children) ==
  [kind |-> "Element", tag |-> tag, attrs |-> attrs, children |-> children]

\* PostHtmlNode::Text
PostHtmlText(text) == [kind |-> "Text", text |-> text]

\* PostHtmlNodeIter collected: an Element passes through, a Text takes up
\* the Text nodes that follow it.
RECURSIVE PostHtmlNodeIter(_)
PostHtmlNodeIter(nodes) ==
  IF nodes = <<>> THEN <<>>
  ELSE IF Head(nodes).kind = "Element"
    THEN << Head(nodes) >> \o PostHtmlNodeIter(Tail(nodes))
  ELSE LET run == TextRun(nodes)
       IN  << PostHtmlText(ConcatTexts(SubSeq(nodes, 1, run))) >>
             \o PostHtmlNodeIter(SubSeq(nodes, run + 1, Len(nodes)))

RECURSIVE PostHtmlNode_conv_markup5ever_node(_, _)
RECURSIVE PostHtmlFlatMapConv(_, _)

\* flat_map(|node| conv_markup5ever_node(node, max_depth) ...)
PostHtmlFlatMapConv(nodes, max_depth) ==
  IF nodes = <<>> THEN <<>>
  ELSE PostHtmlNode_conv_markup5ever_node(Head(nodes), max_depth)
         \o PostHtmlFlatMapConv(Tail(nodes), max_depth)

\* PostHtmlNode::conv_markup5ever_nodes_all
PostHtmlNode_conv_markup5ever_nodes_all(nodes, max_depth) ==
  PostHtmlNodeIter(PostHtmlFlatMapConv(nodes, max_depth))

\* PostHtmlNode::conv_markup5ever_node, folded.
PostHtmlNode_conv_markup5ever_node(node, max_depth) ==
  IF max_depth = 0 THEN <<>>
  ELSE CASE node.kind = "Text" -> << PostHtmlText(node.contents) >>
         [] node.kind = "Element" ->
              LET children ==
                    PostHtmlNode_conv_markup5ever_nodes_all(node.children, max_depth - 1)
                  tag == try_unscribe(PostHtmlTag, node.name)
              IN  IF tag = <<>> THEN children
                  ELSE << PostHtmlElem(tag[1], PostHtmlAttrs(tag[1], node.attrs),
                                       children) >>
         [] OTHER -> <<>>

\* PostHtmlDoc::from_markup5ever_node: Some(the roots) or None.
PostHtmlDoc_from_markup5ever_node(node, max_depth) ==
  IF node.kind # "Document" THEN <<>>
  ELSE << PostHtmlNode_conv_markup5ever_nodes_all(node.children, max_depth) >>

\* escape_char of sbbarch_mastodon: Some(the escape sequence) or None.
PostHtml_escape_char(c) ==
  CASE c = "&" -> << <<"&", "a", "m", "p", ";">> >>
    [] c = "\n" -> << <<"&", "n", "b", "s", "p", ";">> >>
    [] c = "\"" -> << <<"&", "q", "u", "o", "t", ";">> >>
    [] c = "'" -> << <<"&", "a", "p", "o", "s", ";">> >>
    [] c = "<" -> << <<"&", "l", "t", ";">> >>
    [] c = ">" -> << <<"&", "g", "t", ";">> >>
    [] OTHER -> <<>>

\* Display for EscapeHtml of sbbarch_mastodon
RECURSIVE PostHtml_EscapeHtml(_)
PostHtml_EscapeHtml(str) ==
  IF str = <<>> THEN <<>>
  ELSE LET escaped == PostHtml_escape_char(Head(str))
       IN  (IF escaped # <<>> THEN escaped[1] ELSE << Head(str) >>)
             \o PostHtml_EscapeHtml(Tail(str))

\* write!(f, " {}='{}'", attr.scribe(), EscapeHtml(val)) for each attribute
RECURSIVE PostHtmlFmtAttrs(_)
PostHtmlFmtAttrs(attrs) ==
  IF attrs = <<>> THEN <<>>
  ELSE << " " >> \o Head(attrs)[1] \o << "=", "'" >>
         \o PostHtml_EscapeHtml(Head(attrs)[2]) \o << "'" >>
         \o PostHtmlFmtAttrs(Tail(attrs))

RECURSIVE PostHtmlNodeFmt(_)
RECURSIVE PostHtmlFmtAll(_)

\* write!(f, "{}", node) for each node of a sequence
PostHtmlFmtAll(nodes) ==
  IF nodes = <<>> THEN <<>>
  ELSE PostHtmlNodeFmt(Head(nodes)) \o PostHtmlFmtAll(Tail(nodes))

\* Display for PostHtmlElem
PostHtmlElemFmt(elem) ==
  << "<" >> \o elem.tag \o PostHtmlFmtAttrs(elem.attrs) \o << ">" >>
    \o (IF elem.children # <<>>
          THEN PostHtmlFmtAll(elem.children) \o << "<", "/" >> \o elem.tag \o << ">" >>
          ELSE <<>>)

\* Display for PostHtmlNode
PostHtmlNodeFmt(node) ==
  IF node.kind = "Element" THEN PostHtmlElemFmt(node)
  ELSE PostHtml_EscapeHtml(node.text)

\* Display for PostHtmlDoc
PostHtmlDocFmt(roots) == PostHtmlFmtAll(roots)

(* ------------------------------ parse_robot_doc ------------------------- *)

\* MdonHtmlElem::clone_replace_children
clone_replace_children(elem, children) ==
  [kind |-> "Element", tag |-> elem.tag, attrs |-> elem.attrs, children |-> children]

\* The let-else chain of parse_robot_doc: Some(p_text) when the first root is
\* a P element whose first child is a Text, else None.
RobotDocText(roots) ==
  IF roots = <<>> \/ Head(roots).kind # "Element" THEN <<>>
  ELSE IF Head(roots).tag # <<"p">> THEN <<>>
  ELSE IF Head(roots).children = <<>> \/ Head(Head(roots).children).kind # "Text"
    THEN <<>>
  ELSE << Head(Head(roots).children).text >>

\* new_children with the text of the post kept after the body.
NewChildrenAfterBody(children, body) == << MdonHtmlText(body) >> \o children

\* new_children: Text(parsed_group.body), then tail_children.
NewChildren(children, body) == << MdonHtmlText(body) >> \o Tail(children)

\* new_roots: the first element with new_children, then tail_elems.
NewRoots(roots, body) ==
  << clone_replace_children(Head(roots), NewChildren(Head(roots).children, body)) >>
    \o Tail(roots)

(* --------------------------- inputs of the sanitizer -------------------- *)

MaxNodes == 4

MaxDepth == 3

MaxAttrs == 2

MaxParsedNodes == 3

RECURSIVE ForestsOf(_, _, _)
RECURSIVE TreesOf(_, _, _)

\* The trees of exactly n nodes over the leaves and the elements, each
\* element given as its name and attributes.
TreesOf(n, leaves, elems) ==
  (IF n = 1 THEN leaves ELSE {})
    \cup { ElementNode(el[1], el[2], f) :
             el \in elems, f \in ForestsOf(n - 1, leaves, elems) }

\* The sequences of trees of exactly n nodes in all.
ForestsOf(n, leaves, elems) ==
  IF n = 0 THEN { <<>> }
  ELSE UNION { { << tr >> \o f : tr \in TreesOf(k, leaves, elems),
                                f \in ForestsOf(n - k, leaves, elems) } : k \in 1..n }

Span == <<"s", "p", "a", "n">>

\* Documents of texts, comments, an allow-listed tag and an unrecognized one.
ShapeDocs ==
  { DocumentNode(f) :
      f \in UNION { ForestsOf(n, { TextNode(<<"x">>), TextNode(<<"y">>),
                                   LeafNode("Comment") },
                              { << <<"p">>, <<>> >>, << Span, <<>> >> }) :
                  n \in 0..MaxNodes } }

\* Nodes of the remaining kinds, and roots that are no Document.
OddDocs ==
  { DocumentNode(<< TextNode(<<"x">>), LeafNode("Doctype"), TextNode(<<"y">>) >>),
    DocumentNode(<< TextNode(<<"x">>), LeafNode("ProcessingInstruction"),
                    TextNode(<<"y">>) >>),
    DocumentNode(<< TextNode(<<"x">>), DocumentNode(<< TextNode(<<"y">>) >>) >>),
    ElementNode(<<"p">>, <<>>, << TextNode(<<"x">>) >>),
    TextNode(<<"x">>),
    LeafNode("Comment") }

AttrNames ==
  { <<"h", "r", "e", "f">>, <<"H", "r", "e", "f">>, <<"s", "t", "a", "r", "t">>,
    <<"r", "e", "v", "e", "r", "s", "e", "d">>, <<"v", "a", "l", "u", "e">>,
    <<"c", "l", "a", "s", "s">> }

AttrValues == { <<"1">>, <<"'", "2">> }

AttrTags == { <<"a">>, <<"o", "l">>, <<"O", "L">>, <<"l", "i">>, <<"p">>, Span }

\* Documents of one element with attributes and a text in it.
AttrDocs ==
  { DocumentNode(<< ElementNode(nm, attrs, << TextNode(<<"x">>) >>) >>) :
      nm \in AttrTags, attrs \in SeqsUpTo(AttrNames \X AttrValues, MaxAttrs) }

HtmlDocs == ShapeDocs \cup OddDocs \cup AttrDocs

\* The tree builder never leaves two Text nodes next to each other.
RECURSIVE NoAdjacentTextNodes(_)
NoAdjacentTextNodes(nodes) ==
  /\ \A j \in 1..(Len(nodes) - 1) :
       ~(nodes[j].kind = "Text" /\ nodes[j + 1].kind = "Text")
  /\ \A j \in DOMAIN nodes : NoAdjacentTextNodes(nodes[j].children)

\* Documents that parse_fragment returns for HTML of texts, br, blockquote
\* and ol with a start attribute: the root element html with the nodes.
ParsedDocs ==
  { DocumentNode(<< ElementNode(<<"h", "t", "m", "l">>, <<>>, f) >>) :
      f \in { g \in UNION { ForestsOf(n, { TextNode(<<"x">>), TextNode(<<"\n">>),
                                           ElementNode(<<"b", "r">>, <<>>, <<>>) },
                                      { << Blockquote, <<>> >>,
                                        << <<"o", "l">>,
                                           << << <<"s", "t", "a", "r", "t">>,
                                                 <<"'", "2">> >> >> >> }) :
                            n \in 0..MaxParsedNodes } :
               NoAdjacentTextNodes(g) } }

MaxEscapeChunks == 3

\* Pieces of the texts to escape: the characters that are escaped, two that
\* are not, and the escape sequences themselves.
EscapeChunks ==
  { <<"&">>, <<"\n">>, <<"\"">>, <<"'">>, <<"<">>, <<">">>, <<"a">>, <<";">>,
    <<"&", "a", "m", "p", ";">>, <<"&", "n", "b", "s", "p", ";">>,
    <<"&", "q", "u", "o", "t", ";">>, <<"&", "a", "p", "o", "s", ";">>,
    <<"&", "l", "t", ";">>, <<"&", "g", "t", ";">> }

EscapeTexts == { Flatten(c) : c \in SeqsUpTo(EscapeChunks, MaxEscapeChunks) }

(* --------------------------------- IdentBuf ----------------------------- *)

\* The decimal digits of -m for m <= 0.
RECURSIVE NegDigits(_)
NegDigits(m) ==
  LET q == IF m % 10 = 0 THEN m \div 10 ELSE (m \div 10) + 1
      d == (10 - (m % 10)) % 10
  IN  (IF q = 0 THEN <<>> ELSE NegDigits(q)) \o << DigitSeq[d + 1] >>

\* <i32 as Display>::fmt
I32ToString(n) == IF n < 0 THEN << "-" >> \o NegDigits(n) ELSE NegDigits(-n)

\* The digits of <i32 as FromStr>::from_str from offset k on, added to acc
\* for a positive number and subtracted for a negative one: None on a
\* character that is no digit and on overflow.
RECURSIVE FromStrDigits(_, _, _, _)
FromStrDigits(src, k, acc, is_positive) ==
  IF k > Len(src) THEN << acc >>
  ELSE IF ~IsAsciiDigit(src[k]) THEN <<>>
  ELSE LET d == DigitValue(src[k])
       IN  IF is_positive
             THEN IF acc > I32Max \div 10 \/ acc * 10 > I32Max - d THEN <<>>
                  ELSE FromStrDigits(src, k + 1, acc * 10 + d, is_positive)
             ELSE IF acc < -(I32Max \div 10) \/ acc * 10 < I32Min + d THEN <<>>
                  ELSE FromStrDigits(src, k + 1, acc * 10 - d, is_positive)

\* <i32 as FromStr>::from_str: Some(the number), or None for an error.
FromStrI32(src) ==
  IF src = <<>> THEN <<>>
  ELSE IF src[1] \in { "+", "-" }
    THEN IF Len(src) = 1 THEN <<>>
         ELSE FromStrDigits(src, 2, 0, src[1] = "+")
  ELSE FromStrDigits(src, 1, 0, TRUE)

\* IdentBuf::new
IdentBufNew(number, nm) == [number |-> number, name |-> nm]

\* <IdentBuf as Display>::fmt
IdentBufFmt(x) == I32ToString(x.number) \o << "/" >> \o x.name

\* <IdentBuf as FromStr>::from_str
IdentBufFromStr(str) ==
  LET parts == SplitOnce(str, "/")
  IN  IF parts = <<>> THEN [kind |-> "MissingSlash"]
      ELSE LET number == FromStrI32(parts[1][1])
           IN  IF number = <<>> THEN [kind |-> "InvalidNumber"]
               ELSE [kind |-> "Ok", value |-> IdentBufNew(number[1], parts[1][2])]

MaxBufNameLen == 3

MaxBufTextLen == 4

BufNumbers == { 0, 7, -7, 10, -10, 1207, -1207, I32Max, I32Min }

\* Names, among them the empty one and ones with "/" and "-" and digits.
BufNames == SeqsUpTo({ "a", "/", "-", "1" }, MaxBufNameLen)

IdentBufs == { IdentBufNew(n, nm) : n \in BufNumbers, nm \in BufNames }

\* Texts handed to from_str that no IdentBuf was written as.
BufTexts ==
  SeqsUpTo({ "a", "/", "-", "+", "1" }, MaxBufTextLen)
    \cup { Big7 \o << "/" >>, Big8 \o << "/" >>, << "-" >> \o Big8 \o << "/" >>,
           << "-" >> \o Big8 \o << "0", "/" >> }

(* ------------------------------ state machine --------------------------- *)

VARIABLES
  entry,            \* the function under execution
  overflow_checks,  \* whether the build panics on integer overflow
  text,             \* the argument text
  pc,               \* the position in the code
  s,                \* parse_group's s: the text still to parse
  cw,               \* the content warning
  seg,              \* parse_numbers' trimmed s: the numbers segment
  rem,              \* parse_numbers' rem
  pos,              \* the offset of the next character of the scan
  ns, buf, neg, neg_enabled, found_digit,
  n_range,          \* Some(<<min, max>>) once parse_numbers returned it
  target_n,         \* parse_names' target_n
  names,            \* parse_names' names
  partial_names,    \* parse_names' use_partial_names
  result,           \* "running", "None", "Some", "panic", "Ok" or "Err"
  group,            \* the ParsedGroup returned
  season, num,      \* Ident::new's season and num
  prefix,           \* Ident::new's prefix
  chars,            \* str_to_ident_name: the code points still to read
  name,             \* str_to_ident_name's buf
  len,              \* str_to_ident_name's len
  ident,            \* Some(the Ident constructed)
  other,            \* Some(the Ident that ident is compared with)
  equal,            \* Some(ident == other)
  ordering,         \* Some(ident.cmp(other))
  decoded,          \* Some(ident.decode())
  dom,              \* the generic tree handed to the sanitizer
  depth,            \* the max_depth handed to the sanitizer
  doc,              \* Some(Some(roots)) or Some(None) once the sanitizer returned
  html,             \* Some(the text that Display wrote for doc)
  redoc,            \* Some(the document sanitized from the parse of html)
  ident_buf,        \* an IdentBuf, [number, name]
  rendered,         \* Some(the text that Display wrote for ident_buf)
  parsed            \* Some(what from_str returned for rendered)

scanVars == << seg, rem, pos, ns, buf, neg, neg_enabled, found_digit >>

nameVars == << names, partial_names >>

cmpVars == << other, equal, ordering, decoded >>

identVars == << season, num, prefix, chars, name, len, ident, cmpVars >>

parserVars == << overflow_checks, text, s, cw, scanVars, n_range, target_n,
                 nameVars, group >>

htmlVars == << dom, depth, doc, html, redoc >>

bufVars == << ident_buf, rendered, parsed >>

textVars == << htmlVars, bufVars >>

vars == << entry, pc, result, parserVars, identVars, textVars >>

NoGroup == [robots |-> <<>>, body |-> <<>>, cw |-> <<>>]

EmptyName == [j \in 1..IDENT_NAME_LEN |-> ZeroByte]

NoNode == [kind |-> "None"]

NoIdentBuf == [number |-> 0, name |-> <<>>]

\* Neither the sanitizer nor the IdentBuf conversions are under way.
TextIdle ==
  /\ dom = NoNode /\ depth = 0 /\ doc = <<>> /\ html = <<>> /\ redoc = <<>>
  /\ ident_buf = NoIdentBuf /\ rendered = <<>> /\ parsed = <<>>

\* No Ident::new is under way.
IdentIdle ==
  /\ season = 0 /\ num = 0 /\ prefix = <<>> /\ chars = <<>>
  /\ name = EmptyName /\ len = 0 /\ ident = <<>>
  /\ other = <<>> /\ equal = <<>> /\ ordering = <<>> /\ decoded = <<>>

Init ==
  /\ IdentIdle
  /\ TextIdle
  /\ entry \in { "parse_group", "parse_numbers", "parse_names" }
  /\ text \in CASE entry = "parse_group" -> GroupTexts
                [] entry = "parse_numbers" -> NumbersTexts
                [] entry = "parse_names" -> NamesTexts
  /\ overflow_checks \in IF entry = "parse_names" THEN {FALSE} ELSE BOOLEAN
  /\ target_n \in IF entry = "parse_names" THEN 0..MaxTargetN ELSE {0}
  /\ pc = entry
  /\ s = text
  /\ cw = <<>>
  /\ seg = <<>> /\ rem = <<>> /\ pos = 0
  /\ ns = <<>> /\ buf = <<>>
  /\ neg = FALSE /\ neg_enabled = TRUE /\ found_digit = FALSE
  /\ n_range = <<>>
  /\ names = <<>> /\ partial_names = FALSE
  /\ result = "running"
  /\ group = NoGroup

\* A return of the entry function, or a panic.
Finish(r) == pc' = "done" /\ result' = r

\* parse_group, lines 103-108: trim the start and take the content warning.
ParseCw ==
  /\ pc = "parse_group"
  /\ LET out == parse_cw(TrimStart(text))
     IN  s' = out.remainder /\ cw' = out.output
  /\ pc' = "parse_numbers"
  /\ UNCHANGED << identVars, textVars, entry, overflow_checks, text, scanVars, n_range, target_n,
                  nameVars, result, group >>

\* parse_numbers, lines 172-182: split at the first ')' and set up the scan.
SplitNumbers ==
  /\ pc = "parse_numbers"
  /\ LET parts == SplitOnce(s, ")")
     IN  \/ /\ parts = <<>>
            /\ Finish("None")
            /\ UNCHANGED << seg, rem, pos >>
         \/ /\ parts # <<>>
            /\ seg' = Trim(parts[1][1])
            /\ rem' = TrimStart(parts[1][2])
            /\ pos' = 1
            /\ pc' = "scan"
            /\ UNCHANGED result
  /\ UNCHANGED << identVars, textVars, entry, overflow_checks, text, s, cw, ns, buf, neg,
                  neg_enabled, found_digit, n_range, target_n, nameVars, group >>

\* One iteration of the scan on an ASCII digit, lines 192-197.
ScanDigit ==
  /\ pc = "scan" /\ pos <= Len(seg) /\ IsAsciiDigit(seg[pos])
  /\ found_digit' = TRUE
  /\ neg_enabled' = FALSE
  /\ buf' = Append(buf, seg[pos])
  /\ pos' = pos + 1
  /\ UNCHANGED << identVars, textVars, entry, overflow_checks, text, pc, s, cw, seg, rem, ns, neg,
                  n_range, target_n, nameVars, result, group >>

\* One iteration of the scan on any other character, lines 198-218.
ScanOther ==
  /\ pc = "scan" /\ pos <= Len(seg) /\ ~IsAsciiDigit(seg[pos])
  /\ LET c == seg[pos]
         n == parse_number(buf, neg)
     IN  \/ /\ buf # <<>> /\ n = <<>>
            /\ Finish("None")
            /\ UNCHANGED << pos, ns, buf, neg, neg_enabled >>
         \/ /\ buf = <<>> \/ n # <<>>
            /\ ns' = IF buf # <<>> THEN ns \o n ELSE ns
            /\ buf' = <<>>
            /\ \/ /\ c = "-"
                  /\ neg' = (neg_enabled \/ neg)
                  /\ UNCHANGED neg_enabled
                  /\ pos' = pos + 1
                  /\ UNCHANGED << pc, result >>
               \/ /\ c # "-"
                  /\ neg' = FALSE
                  /\ neg_enabled' = TRUE
                  /\ \/ /\ ~found_digit
                        /\ Finish("None")
                        /\ UNCHANGED pos
                     \/ /\ found_digit
                        /\ pos' = pos + 1
                        /\ UNCHANGED << pc, result >>
  /\ UNCHANGED << identVars, textVars, entry, overflow_checks, text, s, cw, seg, rem, found_digit,
                  n_range, target_n, nameVars, group >>

\* The end of the scan, lines 221-225: the last number and numbers_range.
ScanEnd ==
  /\ pc = "scan" /\ pos > Len(seg)
  /\ LET n == parse_number(buf, neg)
         all == IF buf # <<>> /\ n # <<>> THEN ns \o n ELSE ns
         range == numbers_range(all, overflow_checks)
     IN  \/ /\ (buf # <<>> /\ n = <<>>) \/ range.kind = "none"
            /\ Finish("None")
            /\ UNCHANGED << ns, n_range, s >>
         \/ /\ buf = <<>> \/ n # <<>>
            /\ range.kind = "panic"
            /\ Finish("panic")
            /\ ns' = all
            /\ UNCHANGED << n_range, s >>
         \/ /\ buf = <<>> \/ n # <<>>
            /\ range.kind = "some"
            /\ ns' = all
            /\ n_range' = << << range.min, range.max >> >>
            /\ s' = rem
            /\ IF entry = "parse_numbers"
                 THEN Finish("Some")
                 ELSE pc' = "num_numbers" /\ UNCHANGED result
  /\ UNCHANGED << identVars, textVars, entry, overflow_checks, text, cw, seg, rem, pos, buf, neg,
                  neg_enabled, found_digit, target_n, nameVars, group >>

\* parse_group, lines 115-120: how many names to look for.
CountNumbers ==
  /\ pc = "num_numbers"
  /\ LET num_numbers == NumNumbers(n_range[1][1], n_range[1][2], overflow_checks)
     IN  \/ /\ num_numbers.kind = "panic"
            /\ Finish("panic")
            /\ UNCHANGED target_n
         \/ /\ num_numbers.kind = "some"
            /\ target_n' = num_numbers.n
            /\ pc' = "parse_names"
            /\ UNCHANGED result
  /\ UNCHANGED << identVars, textVars, entry, overflow_checks, text, s, cw, scanVars, n_range,
                  nameVars, group >>

\* parse_names, lines 300-365.
ParseNames ==
  /\ pc = "parse_names"
  /\ LET out == parse_names(s, target_n)
     IN  \/ /\ out = <<>>
            /\ Finish("None")
            /\ UNCHANGED << s, nameVars >>
         \/ /\ out # <<>>
            /\ names' = out[1].names
            /\ partial_names' = out[1].partial_names
            /\ s' = out[1].remainder
            /\ IF entry = "parse_names"
                 THEN Finish("Some")
                 ELSE pc' = "robots" /\ UNCHANGED result
  /\ UNCHANGED << identVars, textVars, entry, overflow_checks, text, cw, scanVars, n_range,
                  target_n, group >>

\* parse_group, lines 127-145: the body and the numbered robots.
Assemble ==
  /\ pc = "robots"
  /\ LET min_number == n_range[1][1]
     IN  \/ /\ overflow_checks /\ RobotsOverflow(names, min_number)
            /\ Finish("panic")
            /\ UNCHANGED group
         \/ /\ ~(overflow_checks /\ RobotsOverflow(names, min_number))
            /\ group' = [robots |-> Robots(names, partial_names, min_number),
                         body |-> Body(s),
                         cw |-> cw]
            /\ Finish("Some")
  /\ UNCHANGED << identVars, textVars, entry, overflow_checks, text, s, cw, scanVars, n_range,
                  target_n, nameVars >>

Next ==
  \/ ParseCw
  \/ SplitNumbers
  \/ ScanDigit
  \/ ScanOther
  \/ ScanEnd
  \/ CountNumbers
  \/ ParseNames
  \/ Assemble

Spec == Init /\ [][Next]_vars

\* No parser function is under way.
ParserIdle ==
  /\ overflow_checks = FALSE /\ text = <<>> /\ s = <<>> /\ cw = <<>>
  /\ seg = <<>> /\ rem = <<>> /\ pos = 0
  /\ ns = <<>> /\ buf = <<>>
  /\ neg = FALSE /\ neg_enabled = TRUE /\ found_digit = FALSE
  /\ n_range = <<>> /\ target_n = 0
  /\ names = <<>> /\ partial_names = FALSE
  /\ group = NoGroup

InitIdent ==
  /\ ParserIdle
  /\ TextIdle
  /\ entry = "Ident::new"
  /\ pc = "Ident::new"
  /\ result = "running"
  /\ \E p \in IdentNumbers : season = p[1] /\ num = p[2]
  /\ prefix \in IdentPrefixes
  /\ chars = <<>>
  /\ name = EmptyName
  /\ len = 0
  /\ ident = <<>>
  /\ other = <<>> /\ equal = <<>> /\ ordering = <<>> /\ decoded = <<>>

\* str_to_ident_name, lines 95-103: the empty buffer and the iterator.
IdentBegin ==
  /\ pc = "Ident::new"
  /\ chars' = IdentChars(prefix)
  /\ name' = EmptyName
  /\ len' = 0
  /\ pc' = "encode"
  /\ UNCHANGED << entry, result, parserVars, textVars, season, num, prefix, ident, cmpVars >>

\* One iteration of the loop that writes its code point, lines 105-110.
EncodeChar ==
  /\ pc = "encode" /\ chars # <<>>
  /\ ~(IDENT_NAME_LEN - len < Utf8Len(Head(chars)))
  /\ name' = EncodeUtf8(name, len, Head(chars))
  /\ len' = len + Utf8Len(Head(chars))
  /\ chars' = Tail(chars)
  /\ UNCHANGED << entry, pc, result, parserVars, textVars, season, num, prefix, ident,
                  cmpVars >>

\* One iteration on a code point that does not fit, lines 105-107.
EncodeNoFit ==
  /\ pc = "encode" /\ chars # <<>>
  /\ IDENT_NAME_LEN - len < Utf8Len(Head(chars))
  /\ chars' = AfterNoFit(chars)
  /\ UNCHANGED << entry, pc, result, parserVars, textVars, season, num, prefix, name,
                  len, ident, cmpVars >>

\* Ident::new, lines 19-27, once str_to_ident_name returned (buf, len).
IdentNew ==
  /\ pc = "encode" /\ chars = <<>>
  /\ LET name_len == NameLenOf(len)
     IN  \/ /\ name_len = <<>>
            /\ Finish("Err")
            /\ UNCHANGED ident
         \/ /\ name_len # <<>>
            /\ ident' = << [season |-> season, num |-> num,
                            name_len |-> name_len[1], name |-> name] >>
            /\ Finish("Ok")
  /\ UNCHANGED << entry, parserVars, textVars, season, num, prefix, chars, name, len,
                  cmpVars >>

\* Ident::decode, lines 47-53, on the Ident that Ident::new returned.
Decode ==
  /\ pc = "done" /\ result = "Ok"
  /\ decoded' = << IdentDecode(ident[1]) >>
  /\ pc' = "decoded"
  /\ UNCHANGED << entry, result, parserVars, textVars, season, num, prefix, chars, name,
                  len, ident, other, equal, ordering >>

NextIdent ==
  \/ IdentBegin
  \/ EncodeChar
  \/ EncodeNoFit
  \/ IdentNew
  \/ Decode

SpecIdent == InitIdent /\ [][NextIdent]_vars

\* Two identifiers that Ident::new returned, to be compared.
InitCmp ==
  /\ ParserIdle
  /\ TextIdle
  /\ entry = "Ident::cmp"
  /\ pc = "compare"
  /\ result = "running"
  /\ season = 0 /\ num = 0 /\ prefix = <<>> /\ chars = <<>>
  /\ name = EmptyName /\ len = 0
  /\ ident \in ComparedIdents \ { <<>> }
  /\ other \in ComparedIdents \ { <<>> }
  /\ equal = <<>> /\ ordering = <<>> /\ decoded = <<>>

\* <Ident as PartialEq>::eq, lines 56-60.
Eq ==
  /\ pc = "compare" /\ equal = <<>>
  /\ equal' = << IdentEq(ident[1], other[1]) >>
  /\ UNCHANGED << entry, pc, result, parserVars, textVars, season, num, prefix, chars,
                  name, len, ident, other, ordering, decoded >>

\* <Ident as Ord>::cmp, lines 70-74.
Cmp ==
  /\ pc = "compare" /\ ordering = <<>>
  /\ ordering' = << IdentCmp(ident[1], other[1]) >>
  /\ UNCHANGED << entry, pc, result, parserVars, textVars, season, num, prefix, chars,
                  name, len, ident, other, equal, decoded >>

NextCmp ==
  \/ Eq
  \/ Cmp

SpecCmp == InitCmp /\ [][NextCmp]_vars


\* A generic tree and a depth handed to from_markup5ever_node, by its caller
\* or by from_html_str with the tree that parse_fragment returned.
InitHtml ==
  /\ ParserIdle
  /\ IdentIdle
  /\ entry \in { "MdonHtmlDoc::from_markup5ever_node", "MdonHtmlDoc::from_html_str" }
  /\ pc = "sanitize"
  /\ result = "running"
  /\ dom \in IF entry = "MdonHtmlDoc::from_html_str" THEN ParsedDocs ELSE HtmlDocs
  /\ depth \in 0..MaxDepth
  /\ doc = <<>> /\ html = <<>> /\ redoc = <<>>
  /\ ident_buf = NoIdentBuf /\ rendered = <<>> /\ parsed = <<>>

\* MdonHtmlDoc::from_markup5ever_node, lines 36-44.
Sanitize ==
  /\ pc = "sanitize"
  /\ doc' = << from_markup5ever_node(dom, depth) >>
  /\ IF doc'[1] = <<>> THEN Finish("None") ELSE pc' = "sanitized" /\ UNCHANGED result
  /\ UNCHANGED << entry, parserVars, identVars, bufVars, dom, depth, html, redoc >>

\* <MdonHtmlDoc as Display>::fmt, lines 66-73.
Fmt ==
  /\ pc = "sanitized"
  /\ html' = << MdonHtmlDocFmt(doc[1][1]) >>
  /\ Finish("Some")
  /\ UNCHANGED << entry, parserVars, identVars, bufVars, dom, depth, doc, redoc >>

\* MdonHtmlDoc::from_html_str, lines 24-34, on the text written for the
\* document and with the same max_depth.
Reparse ==
  /\ entry = "MdonHtmlDoc::from_html_str"
  /\ pc = "done" /\ result = "Some" /\ redoc = <<>>
  /\ redoc' = from_html_str(html[1], depth)
  /\ UNCHANGED << entry, pc, result, parserVars, identVars, bufVars, dom, depth,
                  doc, html >>

NextHtml ==
  \/ Sanitize
  \/ Fmt
  \/ Reparse

SpecHtml == InitHtml /\ [][NextHtml]_vars


\* A tree handed to PostHtmlDoc::from_markup5ever_node.
InitPost ==
  /\ ParserIdle
  /\ IdentIdle
  /\ entry = "PostHtmlDoc::from_markup5ever_node"
  /\ pc = "sanitize"
  /\ result = "running"
  /\ dom \in HtmlDocs
  /\ depth \in 0..MaxDepth
  /\ doc = <<>> /\ html = <<>> /\ redoc = <<>>
  /\ ident_buf = NoIdentBuf /\ rendered = <<>> /\ parsed = <<>>

\* PostHtmlDoc::from_markup5ever_node, lines 13-21.
PostSanitize ==
  /\ entry = "PostHtmlDoc::from_markup5ever_node"
  /\ pc = "sanitize"
  /\ doc' = << PostHtmlDoc_from_markup5ever_node(dom, depth) >>
  /\ IF doc'[1] = <<>> THEN Finish("None") ELSE pc' = "sanitized" /\ UNCHANGED result
  /\ UNCHANGED << entry, parserVars, identVars, bufVars, dom, depth, html, redoc >>

\* <PostHtmlDoc as Display>::fmt, lines 25-30.
PostFmt ==
  /\ entry = "PostHtmlDoc::from_markup5ever_node"
  /\ pc = "sanitized"
  /\ html' = << PostHtmlDocFmt(doc[1][1]) >>
  /\ Finish("Some")
  /\ UNCHANGED << entry, parserVars, identVars, bufVars, dom, depth, doc, redoc >>

NextPost ==
  \/ PostSanitize
  \/ PostFmt

SpecPost == InitPost /\ [][NextPost]_vars

\* The nodes after the text of the post in its paragraph, and the roots
\* after the paragraph.
RobotTailChildren ==
  << MdonHtmlElem(<<"b", "r">>, <<>>, <<>>), MdonHtmlText(<<"x">>) >>

RobotTailRoots ==
  << MdonHtmlElem(<<"o", "l">>, << << <<"s", "t", "a", "r", "t">>, <<"1">> >> >>,
                  << MdonHtmlText(<<"y">>) >>),
     MdonHtmlText(<<"z">>) >>

RobotPost == <<"7", ")", " ", "A", "a", "b", "o", "t", " ">>

\* The sanitized documents handed to parse_robot_doc: a paragraph that
\* starts with the text of a post, alone or with nodes and roots after it,
\* and documents that do not start with such a paragraph.
RobotDocs ==
  { << MdonHtmlElem(<<"p">>, <<>>, << MdonHtmlText(t) >> \o RobotTailChildren) >>
      \o RobotTailRoots : t \in GroupTexts }
    \cup { << MdonHtmlElem(<<"p">>, <<>>, << MdonHtmlText(RobotPost) >>) >>,
           <<>>,
           << MdonHtmlText(RobotPost) >>,
           << MdonHtmlElem(<<"o", "l">>, <<>>, << MdonHtmlText(RobotPost) >>) >>,
           << MdonHtmlElem(<<"p">>, <<>>, <<>>) >>,
           << MdonHtmlElem(<<"p">>, <<>>,
                           << MdonHtmlElem(<<"b", "r">>, <<>>, <<>>),
                              MdonHtmlText(RobotPost) >>) >> }

InitRobotDoc ==
  /\ IdentIdle
  /\ entry = "parse_robot_doc"
  /\ pc = "parse_robot_doc"
  /\ result = "running"
  /\ doc \in { << d >> : d \in RobotDocs }
  /\ dom = NoNode /\ depth = 0 /\ html = <<>> /\ redoc = <<>>
  /\ ident_buf = NoIdentBuf /\ rendered = <<>> /\ parsed = <<>>
  /\ overflow_checks \in BOOLEAN
  /\ text = <<>> /\ s = <<>> /\ cw = <<>>
  /\ seg = <<>> /\ rem = <<>> /\ pos = 0
  /\ ns = <<>> /\ buf = <<>>
  /\ neg = FALSE /\ neg_enabled = TRUE /\ found_digit = FALSE
  /\ n_range = <<>> /\ target_n = 0
  /\ names = <<>> /\ partial_names = FALSE
  /\ group = NoGroup

\* parse_robot_doc, lines 192-203: None unless the document starts with a
\* paragraph that starts with a text, else parse_group on that text.
RobotDocSplit ==
  /\ pc = "parse_robot_doc"
  /\ LET p_text == RobotDocText(doc[1])
     IN  \/ /\ p_text = <<>>
            /\ Finish("None")
            /\ UNCHANGED text
         \/ /\ p_text # <<>>
            /\ text' = p_text[1]
            /\ pc' = "parse_group"
            /\ UNCHANGED result
  /\ UNCHANGED << identVars, textVars, entry, overflow_checks, s, cw, scanVars, n_range,
                  target_n, nameVars, group >>

\* parse_robot_doc, lines 205-215, after parse_group returned Some.
RobotDocRebuild ==
  /\ entry = "parse_robot_doc"
  /\ pc = "done" /\ result = "Some" /\ redoc = <<>>
  /\ redoc' = << NewRoots(doc[1], group.body) >>
  /\ UNCHANGED << entry, pc, result, parserVars, identVars, bufVars, dom, depth,
                  doc, html >>

NextRobotDoc ==
  \/ RobotDocSplit
  \/ ParseCw
  \/ SplitNumbers
  \/ ScanDigit
  \/ ScanOther
  \/ ScanEnd
  \/ CountNumbers
  \/ ParseNames
  \/ Assemble
  \/ RobotDocRebuild

SpecRobotDoc == InitRobotDoc /\ [][NextRobotDoc]_vars

\* A text or an attribute value handed to EscapeHtml.
InitEscape ==
  /\ IdentIdle
  /\ TextIdle
  /\ entry = "EscapeHtml"
  /\ pc = "escape"
  /\ result = "running"
  /\ text \in EscapeTexts
  /\ overflow_checks = FALSE /\ s = <<>> /\ cw = <<>>
  /\ seg = <<>> /\ rem = <<>> /\ pos = 0
  /\ ns = <<>> /\ buf = <<>>
  /\ neg = FALSE /\ neg_enabled = TRUE /\ found_digit = FALSE
  /\ n_range = <<>> /\ target_n = 0
  /\ names = <<>> /\ partial_names = FALSE
  /\ group = NoGroup

\* <EscapeHtml as Display>::fmt, lines 295-304.
Escape ==
  /\ pc = "escape"
  /\ html' = << EscapeHtml(text) >>
  /\ Finish("Ok")
  /\ UNCHANGED << entry, parserVars, identVars, bufVars, dom, depth, doc, redoc >>

NextEscape == Escape

SpecEscape == InitEscape /\ [][NextEscape]_vars


\* An IdentBuf to be written and read back, or a text to be read.
InitBuf ==
  /\ ParserIdle
  /\ IdentIdle
  /\ dom = NoNode /\ depth = 0 /\ doc = <<>> /\ html = <<>> /\ redoc = <<>>
  /\ entry \in { "IdentBuf::fmt", "IdentBuf::from_str" }
  /\ result = "running"
  /\ parsed = <<>>
  /\ IF entry = "IdentBuf::fmt"
       THEN pc = "fmt" /\ ident_buf \in IdentBufs /\ rendered = <<>>
       ELSE pc = "from_str" /\ ident_buf = NoIdentBuf /\ rendered \in { << b >> : b \in BufTexts }

\* <IdentBuf as Display>::fmt, lines 29-33.
BufFmt ==
  /\ pc = "fmt"
  /\ rendered' = << IdentBufFmt(ident_buf) >>
  /\ pc' = "from_str"
  /\ UNCHANGED << entry, result, parserVars, identVars, htmlVars, ident_buf, parsed >>

\* <IdentBuf as FromStr>::from_str, lines 35-47.
BufFromStr ==
  /\ pc = "from_str"
  /\ parsed' = << IdentBufFromStr(rendered[1]) >>
  /\ Finish(IF parsed'[1].kind = "Ok" THEN "Ok" ELSE "Err")
  /\ UNCHANGED << entry, parserVars, identVars, htmlVars, ident_buf, rendered >>

NextBuf ==
  \/ BufFmt
  \/ BufFromStr

SpecBuf == InitBuf /\ [][NextBuf]_vars


(* ================================ claims ================================ *)

InGroup == entry = "parse_group"

Accepted == InGroup /\ result = "Some"

RangeMin == n_range[1][1]

RangeMax == n_range[1][2]

\* C1: in every post accepted by parse_group the i-th robot (0-based, in the
\* order of the names, partial names first) has number = minimum of the
\* inferred range + i, so the numbers are consecutive and increasing.
C1_NumbersFromMin ==
  Accepted =>
    /\ Len(group.robots) = Len(names)
    /\ \A k \in DOMAIN group.robots :
         /\ RangeMin <= I32Max - (k - 1)
         /\ group.robots[k].number = RangeMin + (k - 1)
         /\ group.robots[k].name.prefix = names[k].prefix
         /\ group.robots[k].name.suffix = names[k].suffix

\* C1 witness: an accepted post with a partial name before a full name.
C1_Witness ==
  /\ Accepted /\ partial_names
  /\ Len(group.robots) >= 2
  /\ group.robots[2].number = RangeMin + 1

\* C2: every ParsedGroup has between 1 and min(5, max - min + 1) robots, and
\* every robot number lies inside the inferred range [min, max].
C2_GroupSize ==
  Accepted =>
    /\ Len(group.robots) >= 1
    /\ Len(group.robots) <= 5
    /\ RangeMax >= RangeMin
    /\ SubI32(RangeMax, RangeMin).overflow
         \/ Len(group.robots) - 1 <= RangeMax - RangeMin
    /\ \A k \in DOMAIN group.robots :
         RangeMin <= group.robots[k].number /\ group.robots[k].number <= RangeMax

\* C2 witness: five robots were taken from a wider range although the text
\* holds a sixth name.
C2_Witness ==
  /\ Accepted
  /\ Len(group.robots) = 5
  /\ ~SubI32(RangeMax, RangeMin).overflow
  /\ RangeMax - RangeMin >= 5
  /\ BotFind(s, 1) # <<>>

\* The number of decimal digits of n > 0.
RECURSIVE ClaimDigits(_)
ClaimDigits(n) == IF n < 10 THEN 1 ELSE 1 + ClaimDigits(n \div 10)

RECURSIVE ClaimPow10(_)
ClaimPow10(d) == IF d = 0 THEN 1 ELSE 10 * ClaimPow10(d - 1)

\* |first| with its lowest d decimal digits zeroed.
ClaimZeroedAbs(first, d) ==
  IF d >= 10 THEN 0
  ELSE (Abs(first) \div ClaimPow10(d)) * ClaimPow10(d)

ClaimAbbreviated(first, n) == 0 < n /\ n < Abs(first)

\* Whether the value that C3 gives the k-th number is a 32-bit value.
ClaimFits(list, k) ==
  ClaimAbbreviated(list[1], list[k]) =>
    ClaimZeroedAbs(list[1], ClaimDigits(list[k])) <= I32Max - list[k]

\* The value that C3 gives the k-th number of the list, when it fits.
ClaimValue(list, k) ==
  IF ClaimAbbreviated(list[1], list[k])
    THEN Signum(list[1]) * (ClaimZeroedAbs(list[1], ClaimDigits(list[k])) + list[k])
    ELSE list[k]

\* numbers_range has run on the non-empty list ns.
RangeInferred ==
  /\ pc \in { "num_numbers", "parse_names", "robots", "done" }
  /\ seg # <<>> /\ pos > Len(seg)
  /\ ns # <<>>
  /\ buf = <<>> \/ ParseI32(buf) # <<>>

\* C3: range inference over the parsed number list: a single number yields
\* first..=first; each later n with 0 < n < abs(first) is replaced by first
\* with its lowest digits(n) digits zeroed plus n * sign(first); the result is
\* the inclusive [min, max] over first and all those values.
C3_RangeInference ==
  RangeInferred =>
    /\ \A k \in DOMAIN ns : ClaimFits(ns, k)
    /\ n_range # <<>>
    /\ \E k \in DOMAIN ns : RangeMin = ClaimValue(ns, k)
    /\ \E k \in DOMAIN ns : RangeMax = ClaimValue(ns, k)
    /\ \A k \in DOMAIN ns :
         RangeMin <= ClaimValue(ns, k) /\ ClaimValue(ns, k) <= RangeMax

InNumbers == entry \in { "parse_group", "parse_numbers" }

\* The last offset of the run of ASCII digits of str that holds offset k.
RECURSIVE ClaimRunEnd(_, _)
ClaimRunEnd(str, k) ==
  IF k < Len(str) /\ IsAsciiDigit(str[k + 1]) THEN ClaimRunEnd(str, k + 1) ELSE k

\* The maximal runs of ASCII digits of str from offset k on, as <<first, last>>.
RECURSIVE ClaimRunsFrom(_, _)
ClaimRunsFrom(str, k) ==
  IF k > Len(str) THEN <<>>
  ELSE IF ~IsAsciiDigit(str[k]) THEN ClaimRunsFrom(str, k + 1)
  ELSE << <<k, ClaimRunEnd(str, k)>> >> \o ClaimRunsFrom(str, ClaimRunEnd(str, k) + 1)

ClaimRuns == ClaimRunsFrom(seg, 1)

\* The digits of a run without its leading zeros.
RECURSIVE ClaimStripZeros(_)
ClaimStripZeros(d) ==
  IF d # <<>> /\ Head(d) = "0" THEN ClaimStripZeros(Tail(d)) ELSE d

\* Whether the decimal value of the run exceeds 2147483647, by comparing the
\* digits with those of 2147483647.
ClaimExceeds(run) ==
  LET d == ClaimStripZeros(Slice(seg, run[1], run[2]))
  IN  \/ Len(d) > 10
      \/ /\ Len(d) = 10
         /\ \E k \in 1..10 :
              /\ DigitValue(d[k]) > DigitValue(Big7[k])
              /\ \A j \in 1..(k - 1) : d[j] = Big7[j]

\* The decimal value of a run that does not exceed 2147483647.
RECURSIVE ClaimDecimal(_)
ClaimDecimal(d) ==
  IF d = <<>> THEN 0
  ELSE 10 * ClaimDecimal(SubSeq(d, 1, Len(d) - 1)) + DigitValue(d[Len(d)])

\* The scan has passed the character after the run, or has ended normally.
ClaimFlushed(run) ==
  \/ pc = "scan" /\ run[2] + 1 < pos
  \/ pc \in { "num_numbers", "parse_names", "robots" }
  \/ pc = "done" /\ (result \in { "Some", "panic" } \/ n_range # <<>>)

\* C4: a digit run of the numbers segment whose value exceeds 2147483647 makes
\* parse_numbers (and parse_group) return no result wherever it occurs; a run
\* equal to 2147483647 is accepted; every number pushed has exactly the value
\* of its run (none is saturated or wrapped).
C4_TokenOverflow ==
  InNumbers =>
    LET runs == ClaimRuns
    IN  /\ (pc = "done" /\ \E k \in DOMAIN runs : ClaimExceeds(runs[k]))
             => result = "None"
        /\ \A k \in DOMAIN runs :
             ClaimFlushed(runs[k]) =>
               /\ ~ClaimExceeds(runs[k])
               /\ Len(ns) >= k
               /\ Abs(ns[k]) = ClaimDecimal(Slice(seg, runs[k][1], runs[k][2]))

\* C4 witness: 2147483647 was accepted and a later run that exceeds it made
\* the parse return no result.
C4_Witness ==
  /\ InNumbers /\ pc = "done" /\ result = "None"
  /\ Len(ns) >= 1 /\ ns[1] = I32Max
  /\ Len(ClaimRuns) >= 2 /\ ClaimExceeds(ClaimRuns[2])

\* sg is input[1..at-1] without its leading and trailing whitespace, and rm is
\* input[at+1..] without its leading whitespace, for the first ')' at offset at.
ClaimSplitAtFirstParen(input, sg, rm) ==
  \E at \in DOMAIN input :
    /\ input[at] = ")"
    /\ \A k \in 1..(at - 1) : input[k] # ")"
    /\ \E a \in 1..at :
         /\ \A k \in 1..(a - 1) : IsWhitespace(input[k])
         /\ sg = <<>> => a = at
         /\ sg # <<>> =>
              /\ sg = Slice(input, a, a + Len(sg) - 1)
              /\ a + Len(sg) - 1 < at
              /\ ~IsWhitespace(sg[1]) /\ ~IsWhitespace(sg[Len(sg)])
              /\ \A k \in (a + Len(sg))..(at - 1) : IsWhitespace(input[k])
    /\ \E b \in (at + 1)..(Len(input) + 1) :
         /\ \A k \in (at + 1)..(b - 1) : IsWhitespace(input[k])
         /\ rm = From(input, b)
         /\ rm = <<>> \/ ~IsWhitespace(rm[1])

\* C5: parse_numbers returns no result for an input without ')'; otherwise the
\* numbers segment is the trimmed text before the first ')' and the remainder
\* is the text after it with only its leading whitespace removed.
C5_SplitAtFirstParen ==
  /\ (entry = "parse_numbers" /\ pc = "done" /\ \A k \in DOMAIN text : text[k] # ")")
       => result = "None"
  /\ (InNumbers /\ pc = "scan") => ClaimSplitAtFirstParen(s, seg, rem)
  /\ (entry = "parse_numbers" /\ result = "Some")
       => ClaimSplitAtFirstParen(text, seg, rem) /\ s = rem

\* C5 witness: parse_numbers returned a remainder that keeps a later ')' and
\* its trailing whitespace, after a segment that was trimmed on both sides.
C5_Witness ==
  /\ entry = "parse_numbers" /\ result = "Some"
  /\ \E k \in DOMAIN rem : rem[k] = ")"
  /\ IsWhitespace(rem[Len(rem)])
  /\ IsWhitespace(text[1])
  /\ \E k \in DOMAIN text :
       text[k] = ")" /\ IsWhitespace(text[k - 1]) /\ \A j \in 1..(k - 1) : text[j] # ")"

\* The text holds a match of BOT_RE: a run of non-whitespace characters that
\* is followed at once by a bot token.
ClaimHasBot(str) ==
  \E j \in 2..Len(str) : ~IsWhitespace(str[j - 1]) /\ BotTokenEnd(str, j) # 0

\* C6: parse_group returns no result exactly when, after the optional content
\* warning is consumed, parse_numbers returns no result or parse_names finds
\* no bot match; the absence of a content warning alone never causes it.
C6_NoResultExactly ==
  (InGroup /\ pc = "done" /\ result # "panic") =>
    /\ result = "None" <=> (n_range = <<>> \/ ~ClaimHasBot(rem))
    /\ (n_range # <<>> /\ ClaimHasBot(rem) /\ result = "Some") => group.cw = cw

\* The matches parse_names collects in the text after the numbers.
ClaimMatches == BotMatchesFrom(rem, 1, target_n)

\* The fallback is used: fewer matches than target_n, the first not at the start.
ClaimFallbackUsed ==
  Len(ClaimMatches) < target_n /\ ClaimMatches[1].start > 1

\* C7: when the partial-name fallback is used every robot of the group has
\* plural absent; when it is not used each robot keeps the plural marker that
\* was matched for its own name.
C7_PluralCleared ==
  Accepted =>
    IF ClaimFallbackUsed
      THEN \A k \in DOMAIN group.robots : group.robots[k].name.plural = <<>>
      ELSE /\ Len(group.robots) = Len(ClaimMatches)
           /\ \A k \in DOMAIN group.robots :
                LET m == ClaimMatches[k]
                IN  group.robots[k].name.plural =
                      IF m.end > m.tend THEN << Slice(rem, m.tend + 1, m.end) >>
                      ELSE <<>>

\* C7 witness: the fallback was used on a post whose full match is plural.
C7_Witness ==
  /\ Accepted /\ ClaimFallbackUsed
  /\ Len(group.robots) >= 2
  /\ \E k \in DOMAIN names : names[k].plural # <<>>

(* --------------------------- claims about Ident ------------------------- *)

InIdent == entry = "Ident::new"

\* str_to_ident_name has returned (buf, len).
IdentReturned ==
  InIdent /\ ((pc = "encode" /\ chars = <<>>) \/ pc = "done")

\* Ident::new has returned.
IdentDone == InIdent /\ pc = "done"

\* The UTF-8 encoding of a code-point sequence.
RECURSIVE ClaimBytes(_)
ClaimBytes(cps) ==
  IF cps = <<>> THEN <<>>
  ELSE [i \in 1..Utf8Len(Head(cps)) |-> <<Head(cps), i>>] \o ClaimBytes(Tail(cps))

\* bytes, from its j-th on, is a run of complete encodings.
RECURSIVE ClaimValidUtf8From(_, _)
ClaimValidUtf8From(bytes, j) ==
  \/ j > Len(bytes)
  \/ /\ bytes[j][2] = 1
     /\ LET n == Utf8Len(bytes[j][1])
        IN  /\ j + n - 1 <= Len(bytes)
            /\ \A i \in 1..n : bytes[j + i - 1] = <<bytes[j][1], i>>
            /\ ClaimValidUtf8From(bytes, j + n)

\* The number of leading code points of cps that fit in room bytes.
RECURSIVE ClaimFitCount(_, _)
ClaimFitCount(cps, room) ==
  IF cps = <<>> \/ Utf8Len(Head(cps)) > room THEN 0
  ELSE 1 + ClaimFitCount(Tail(cps), room - Utf8Len(Head(cps)))

ClaimWritten == SubSeq(name, 1, len)

\* C8: str_to_ident_name with capacity 16 keeps len <= 16, the first len bytes
\* of the buffer are the complete encodings of a prefix of the normalized
\* code points and so valid UTF-8, nothing is written after them, and what it
\* returns stops at the first code point that does not fit in the room left.
C8_WholeCodePoints ==
  (InIdent /\ pc # "Ident::new") =>
    LET norm == IdentChars(prefix)
    IN  /\ len <= 16
        /\ \E m \in 0..Len(norm) : ClaimWritten = ClaimBytes(SubSeq(norm, 1, m))
        /\ ClaimValidUtf8From(ClaimWritten, 1)
        /\ \A j \in (len + 1)..16 : name[j] = ZeroByte
        /\ IdentReturned =>
             ClaimWritten = ClaimBytes(SubSeq(norm, 1, ClaimFitCount(norm, 16)))

\* C8 witness: it returned before a multi-byte code point with room left.
C8_Witness ==
  /\ IdentReturned
  /\ len < 16
  /\ ClaimFitCount(IdentChars(prefix), 16) < Len(IdentChars(prefix))
  /\ \E j \in 1..len : name[j][2] > 1

\* C9: Ident::new returns the error exactly when zero bytes were written,
\* which is when nothing of the prefix is left after normalization; otherwise
\* it succeeds with name_len the number of bytes written, 1 <= name_len <= 16.
C9_ErrorOnEmptyName ==
  IdentDone =>
    /\ result = "Err" <=> len = 0
    /\ len = 0 <=> IdentChars(prefix) = <<>>
    /\ result = "Err" => ident = <<>>
    /\ result # "Err" =>
         /\ result = "Ok"
         /\ ident # <<>>
         /\ ident[1].name_len = len
         /\ 1 <= ident[1].name_len /\ ident[1].name_len <= 16

\* C9 witness: the error, on a prefix that is not empty.
C9_Witness == IdentDone /\ result = "Err" /\ prefix # <<>>

\* The normalization of the prefix is more than 16 bytes long.
ClaimOverlong == Len(ClaimBytes(IdentChars(prefix))) > 16

\* C10 as stated: when the full normalization of the prefix is more than 16
\* bytes long, Ident::new returns the error and no identifier.
C10_OverlongIsError ==
  (IdentDone /\ ClaimOverlong) => (result = "Err" /\ ident = <<>>)

\* C10 amended: when the full normalization of the prefix is more than 16
\* bytes long, Ident::new succeeds, with the name the longest run of leading
\* whole code points of the normalization that fits in 16 bytes.
C10_OverlongIsTruncated ==
  (IdentDone /\ ClaimOverlong) =>
    /\ result = "Ok"
    /\ ident # <<>>
    /\ LET kept == ClaimBytes(SubSeq(IdentChars(prefix), 1,
                                     ClaimFitCount(IdentChars(prefix), 16)))
       IN  /\ ident[1].name_len = Len(kept)
           /\ SubSeq(ident[1].name, 1, ident[1].name_len) = kept
           /\ 13 <= Len(kept) /\ Len(kept) <= 16

\* C10 witness: an identifier constructed from an over-long normalization.
C10_Witness ==
  /\ IdentDone /\ ClaimOverlong
  /\ result = "Ok"
  /\ ident # <<>>
  /\ ident[1].name_len = 16

(* ------------------- claims about comparing and decoding ----------------- *)

\* The Unicode scalar value of a code point of the model.
ClaimScalar(c) ==
  CASE c = "-" -> 45
    [] c = "E" -> 69
    [] c = "a" -> 97
    [] c = "e" -> 101
    [] c = "E_acute" -> 201
    [] c = "a_acute" -> 225
    [] c = "e_acute" -> 233
    [] c = "acute" -> 769
    [] c = "U65E5" -> 26085
    [] c = "U1D400" -> 119808

\* The text of a run of whole encodings: the code point of each first byte.
RECURSIVE ClaimTextOf(_)
ClaimTextOf(bytes) ==
  IF bytes = <<>> THEN <<>>
  ELSE (IF Head(bytes)[2] = 1 THEN << Head(bytes)[1] >> ELSE <<>>)
         \o ClaimTextOf(Tail(bytes))

\* The name of an identifier as text: its first name_len bytes, decoded.
ClaimNameText(id) == ClaimTextOf(SubSeq(id.name, 1, id.name_len))

\* Text ordering: the first code point that differs decides, then a proper
\* prefix comes first.
RECURSIVE ClaimCmpText(_, _)
ClaimCmpText(x, y) ==
  IF x = <<>> /\ y = <<>> THEN "Equal"
  ELSE IF x = <<>> THEN "Less"
  ELSE IF y = <<>> THEN "Greater"
  ELSE IF ClaimScalar(Head(x)) < ClaimScalar(Head(y)) THEN "Less"
  ELSE IF ClaimScalar(Head(x)) > ClaimScalar(Head(y)) THEN "Greater"
  ELSE ClaimCmpText(Tail(x), Tail(y))

\* Season, then num, then name text.
ClaimOrder(a, b) ==
  IF a.season # b.season THEN (IF a.season < b.season THEN "Less" ELSE "Greater")
  ELSE IF a.num # b.num THEN (IF a.num < b.num THEN "Less" ELSE "Greater")
  ELSE ClaimCmpText(ClaimNameText(a), ClaimNameText(b))

ClaimSame(a, b) ==
  /\ a.season = b.season
  /\ a.num = b.num
  /\ SubSeq(a.name, 1, a.name_len) = SubSeq(b.name, 1, b.name_len)

\* The identifier with other bytes after its first name_len bytes.
ClaimRepadded(id) ==
  [id EXCEPT !.name = [j \in DOMAIN id.name |->
                         IF j > id.name_len THEN <<"U1D400", 4>> ELSE id.name[j]]]

ClaimReverse(o) ==
  CASE o = "Less" -> "Greater" [] o = "Greater" -> "Less" [] OTHER -> o

InCmp == entry = "Ident::cmp"

\* C11: for two identifiers a and b, a == b iff they have the same season,
\* the same num and the same first name_len name bytes; a.cmp(b) is the
\* lexicographic comparison by season, then num, then name text; the bytes
\* after name_len change neither result; cmp is Equal exactly when a == b,
\* and b.cmp(a) is the reverse of a.cmp(b).
C11_EqAndOrder ==
  InCmp =>
    LET a == ident[1]
        b == other[1]
    IN  /\ equal # <<>> =>
             /\ equal[1] <=> ClaimSame(a, b)
             /\ equal[1] = IdentEq(ClaimRepadded(a), b)
             /\ equal[1] = IdentEq(a, ClaimRepadded(b))
        /\ ordering # <<>> =>
             /\ ordering[1] = ClaimOrder(a, b)
             /\ ordering[1] = IdentCmp(ClaimRepadded(a), b)
             /\ ordering[1] = IdentCmp(a, ClaimRepadded(b))
             /\ IdentCmp(b, a) = ClaimReverse(ordering[1])
        /\ (equal # <<>> /\ ordering # <<>>) =>
             (ordering[1] = "Equal" <=> equal[1])

\* C11 witness: the same season and num, a shorter name that comes later as
\* text, both results computed.
C11_Witness ==
  /\ InCmp /\ equal = << FALSE >> /\ ordering = << "Greater" >>
  /\ ident[1].season = other[1].season /\ ident[1].num = other[1].num
  /\ ident[1].name_len < other[1].name_len

\* C12: when Ident::new succeeds on (season, num, prefix), decoding what it
\* returned yields season, num and the normalization of prefix cut to the
\* whole code points that fit in 16 bytes.
C12_DecodeRoundTrip ==
  (InIdent /\ pc = "decoded") =>
    /\ decoded # <<>>
    /\ decoded[1].season = season
    /\ decoded[1].num = num
    /\ decoded[1].name =
         ClaimBytes(SubSeq(IdentChars(prefix), 1,
                           ClaimFitCount(IdentChars(prefix), 16)))

\* C12 witness: decoded, with a name shorter than the buffer and a prefix
\* that is not its own normalization.
C12_Witness ==
  /\ InIdent /\ pc = "decoded"
  /\ Len(decoded[1].name) < 16
  /\ ClaimTextOf(decoded[1].name) # prefix
  /\ season = 255


(* ------------------------ claims about the sanitizer -------------------- *)

InHtml ==
  entry \in { "MdonHtmlDoc::from_markup5ever_node", "MdonHtmlDoc::from_html_str" }

\* The sanitizer returned a document.
Sanitized == InHtml /\ doc # <<>> /\ doc[1] # <<>>

\* The nodes without their descendants more than k - 1 edges below them; no
\* node at all for k <= 0.
RECURSIVE ClaimPruneAll(_, _)
ClaimPruneAll(nodes, k) ==
  IF k <= 0 THEN <<>>
  ELSE [j \in DOMAIN nodes |->
          [nodes[j] EXCEPT !.children = ClaimPruneAll(nodes[j].children, k - 1)]]

\* The tree with only its nodes of depth at most k (the root has depth 0).
ClaimPruned(root, k) == [root EXCEPT !.children = ClaimPruneAll(root.children, k)]

ClaimMax(S) == CHOOSE m \in S : \A n \in S : n <= m

\* The number of levels of a sequence of restricted nodes.
RECURSIVE ClaimHeight(_)
ClaimHeight(nodes) ==
  IF nodes = <<>> THEN 0
  ELSE 1 + ClaimMax({ IF nodes[j].kind = "Element"
                        THEN ClaimHeight(nodes[j].children) ELSE 0 :
                      j \in DOMAIN nodes })

\* C13 as the specification states it: no node of the sanitized document
\* originates from a source node of depth >= max_depth, so the document is
\* that of the tree cut down to the depths below max_depth and has fewer
\* levels than max_depth.
C13_NothingFromDepthD ==
  Sanitized =>
    /\ doc[1] = from_markup5ever_node(ClaimPruned(dom, depth - 1), depth)
    /\ ClaimHeight(doc[1][1]) <= ClaimMax({ depth - 1, 0 })

\* C13 (amended): no node of the sanitized document originates from a source
\* node of depth > max_depth: the document is that of the tree cut down to
\* the depths up to max_depth and has at most max_depth levels.
C13_NothingBelowDepthD ==
  Sanitized =>
    /\ doc[1] = from_markup5ever_node(ClaimPruned(dom, depth), depth)
    /\ ClaimHeight(doc[1][1]) <= depth

\* A text of depth 2 is kept and one of depth 3 is dropped under max_depth 2.
C13_Witness ==
  /\ Sanitized
  /\ depth = 2
  /\ dom = DocumentNode(<< ElementNode(<<"p">>, <<>>,
             << TextNode(<<"x">>),
                ElementNode(<<"p">>, <<>>, << TextNode(<<"y">>) >>) >>) >>)
  /\ doc[1][1] = << MdonHtmlElem(<<"p">>, <<>>,
                      << MdonHtmlText(<<"x">>), MdonHtmlElem(<<"p">>, <<>>, <<>>) >>) >>

\* No two adjacent nodes are both Text, at this level and in every element.
RECURSIVE ClaimNoAdjacentText(_)
ClaimNoAdjacentText(nodes) ==
  /\ \A j \in 1..(Len(nodes) - 1) :
       ~(nodes[j].kind = "Text" /\ nodes[j + 1].kind = "Text")
  /\ \A j \in DOMAIN nodes :
       nodes[j].kind = "Element" => ClaimNoAdjacentText(nodes[j].children)

\* The characters of the texts of restricted nodes in document order, every
\* element enclosed in "(" and ")".
RECURSIVE ClaimStream(_)
ClaimStream(nodes) ==
  IF nodes = <<>> THEN <<>>
  ELSE (IF Head(nodes).kind = "Text" THEN Head(nodes).text
        ELSE << "(" >> \o ClaimStream(Head(nodes).children) \o << ")" >>)
         \o ClaimStream(Tail(nodes))

ClaimRecognized(node) == node.kind = "Element" /\ ToLowercase(node.name) \in MdonHtmlTag

\* The same of the source nodes within k levels: the text nodes in document
\* order, the allow-listed elements enclosed, everything else left out.
RECURSIVE ClaimSourceStream(_, _)
ClaimSourceStream(nodes, k) ==
  IF nodes = <<>> \/ k = 0 THEN <<>>
  ELSE LET node == Head(nodes)
           inner == ClaimSourceStream(node.children, k - 1)
       IN  (CASE node.kind = "Text" -> node.contents
              [] ClaimRecognized(node) -> << "(" >> \o inner \o << ")" >>
              [] node.kind = "Element" -> inner
              [] OTHER -> <<>>)
             \o ClaimSourceStream(Tail(nodes), k)

\* C14: in a sanitized document no two adjacent siblings are both Text, at
\* the roots and in every element, and the texts are the source's text runs
\* concatenated in their order between the same elements.
C14_TextCoalesced ==
  Sanitized =>
    /\ ClaimNoAdjacentText(doc[1][1])
    /\ ClaimStream(doc[1][1]) = ClaimSourceStream(dom.children, depth)

\* A comment dropped and an element unwrapped between two texts, which are
\* merged into one.
C14_Witness ==
  /\ Sanitized
  /\ dom = DocumentNode(<< TextNode(<<"x">>), LeafNode("Comment"),
                           ElementNode(Span, <<>>, << TextNode(<<"y">>) >>) >>)
  /\ depth = 2
  /\ doc[1][1] = << MdonHtmlText(<<"x", "y">>) >>

\* The restricted nodes written out in document order: the characters of
\* each text, and each element as its tag in brackets, its children and "/".
RECURSIVE ClaimOutline(_)
ClaimOutline(nodes) ==
  IF nodes = <<>> THEN <<>>
  ELSE (IF Head(nodes).kind = "Text" THEN Head(nodes).text
        ELSE << "[" >> \o Head(nodes).tag \o << "]" >>
               \o ClaimOutline(Head(nodes).children) \o << "/" >>)
         \o ClaimOutline(Tail(nodes))

\* The same of the source nodes within k levels, where an element that is
\* not allow-listed stands for its children and only for them.
RECURSIVE ClaimSourceOutline(_, _)
ClaimSourceOutline(nodes, k) ==
  IF nodes = <<>> \/ k = 0 THEN <<>>
  ELSE LET node == Head(nodes)
           inner == ClaimSourceOutline(node.children, k - 1)
       IN  (CASE node.kind = "Text" -> node.contents
              [] ClaimRecognized(node) ->
                   << "[" >> \o ToLowercase(node.name) \o << "]" >> \o inner \o << "/" >>
              [] node.kind = "Element" -> inner
              [] OTHER -> <<>>)
             \o ClaimSourceOutline(Tail(nodes), k)

\* C15: within the depth budget an element that is not allow-listed
\* contributes no Element and its converted children stand in its place, in
\* order; an allow-listed element contributes exactly one Element, whose
\* children are the conversion of its own children.
C15_UnwrapOrKeep ==
  Sanitized => ClaimOutline(doc[1][1]) = ClaimSourceOutline(dom.children, depth)

\* An unrecognized element is replaced by its children, a text and an
\* allow-listed element, which is kept with its own child.
C15_Witness ==
  /\ Sanitized
  /\ dom = DocumentNode(<< ElementNode(Span, <<>>,
             << TextNode(<<"x">>),
                ElementNode(<<"p">>, <<>>, << TextNode(<<"y">>) >>) >>) >>)
  /\ depth = 3
  /\ doc[1][1] = << MdonHtmlText(<<"x">>),
                    MdonHtmlElem(<<"p">>, <<>>, << MdonHtmlText(<<"y">>) >>) >>

\* The (tag, attribute) pairs of the allow-list.
ClaimAllowList ==
  { << <<"a">>, <<"h", "r", "e", "f">> >>,
    << <<"o", "l">>, <<"s", "t", "a", "r", "t">> >>,
    << <<"o", "l">>, <<"r", "e", "v", "e", "r", "s", "e", "d">> >>,
    << <<"l", "i">>, <<"v", "a", "l", "u", "e">> >> }

\* Every attribute of every element of the nodes is on the allow-list.
RECURSIVE ClaimAttrsAllowed(_)
ClaimAttrsAllowed(nodes) ==
  \A j \in DOMAIN nodes :
    nodes[j].kind = "Element" =>
      /\ \A a \in DOMAIN nodes[j].attrs :
           << nodes[j].tag, nodes[j].attrs[a][1] >> \in ClaimAllowList
      /\ ClaimAttrsAllowed(nodes[j].children)

\* The source attributes that are on the allow-list for the tag, with their
\* names in lower case, in their order.
RECURSIVE ClaimKept(_, _)
ClaimKept(tag, attrs) ==
  IF attrs = <<>> THEN <<>>
  ELSE LET attr == ToLowercase(Head(attrs)[1])
       IN  (IF << tag, attr >> \in ClaimAllowList
              THEN << << attr, Head(attrs)[2] >> >> ELSE <<>>)
             \o ClaimKept(tag, Tail(attrs))

\* The attribute lists of the elements of restricted nodes, in document order.
RECURSIVE ClaimAttrLists(_)
ClaimAttrLists(nodes) ==
  IF nodes = <<>> THEN <<>>
  ELSE (IF Head(nodes).kind = "Element"
          THEN << Head(nodes).attrs >> \o ClaimAttrLists(Head(nodes).children)
          ELSE <<>>)
         \o ClaimAttrLists(Tail(nodes))

\* The attribute lists expected of the source nodes within k levels.
RECURSIVE ClaimSourceAttrLists(_, _)
ClaimSourceAttrLists(nodes, k) ==
  IF nodes = <<>> \/ k = 0 THEN <<>>
  ELSE LET node == Head(nodes)
           inner == ClaimSourceAttrLists(node.children, k - 1)
       IN  (CASE ClaimRecognized(node) ->
                   << ClaimKept(ToLowercase(node.name), node.attrs) >> \o inner
              [] node.kind = "Element" -> inner
              [] OTHER -> <<>>)
             \o ClaimSourceAttrLists(Tail(nodes), k)

\* C16: every attribute of every Element of a sanitized document is href on
\* a, start or reversed on ol, or value on li, and each element keeps exactly
\* the source pairs of these kinds, in source order with the source values.
C16_AttrAllowList ==
  Sanitized =>
    /\ ClaimAttrsAllowed(doc[1][1])
    /\ ClaimAttrLists(doc[1][1]) = ClaimSourceAttrLists(dom.children, depth)

\* An ol given in upper case loses its href and keeps its start.
C16_Witness ==
  /\ Sanitized
  /\ depth = 2
  /\ dom = DocumentNode(<< ElementNode(<<"O", "L">>,
             << << <<"h", "r", "e", "f">>, <<"1">> >>,
                << <<"s", "t", "a", "r", "t">>, <<"'", "2">> >> >>,
             << TextNode(<<"x">>) >>) >>)
  /\ doc[1][1][1].attrs = << << <<"s", "t", "a", "r", "t">>, <<"'", "2">> >> >>

(* ----------------------- claims about the serializer -------------------- *)

\* A document was sanitized and written.
Formatted == Sanitized /\ html # <<>>

\* The offset of the first ">" of str at or after k.
RECURSIVE ClaimTagEnd(_, _)
ClaimTagEnd(str, k) ==
  IF k > Len(str) \/ str[k] = ">" THEN k ELSE ClaimTagEnd(str, k + 1)

\* What str has between each "<" and the ">" that follows it, from k on.
RECURSIVE ClaimTags(_, _)
ClaimTags(str, k) ==
  IF k > Len(str) THEN <<>>
  ELSE IF str[k] = "<"
    THEN LET e == ClaimTagEnd(str, k)
         IN  << SubSeq(str, k + 1, e - 1) >> \o ClaimTags(str, e + 1)
  ELSE ClaimTags(str, k + 1)

\* What str has outside of "<" ... ">", from k on.
RECURSIVE ClaimOutsideTags(_, _)
ClaimOutsideTags(str, k) ==
  IF k > Len(str) THEN <<>>
  ELSE IF str[k] = "<" THEN ClaimOutsideTags(str, ClaimTagEnd(str, k) + 1)
  ELSE << str[k] >> \o ClaimOutsideTags(str, k + 1)

\* The tags expected of restricted nodes: for each element its opening tag
\* with its attributes, the tags of its children, and its closing tag if and
\* only if it has a child.
RECURSIVE ClaimExpectedTags(_)
ClaimExpectedTags(nodes) ==
  IF nodes = <<>> THEN <<>>
  ELSE LET node == Head(nodes)
       IN  (IF node.kind = "Text" THEN <<>>
            ELSE << node.tag \o FmtAttrs(node.attrs) >>
                   \o ClaimExpectedTags(node.children)
                   \o (IF Len(node.children) >= 1 THEN << << "/" >> \o node.tag >>
                       ELSE <<>>))
             \o ClaimExpectedTags(Tail(nodes))

\* The texts of restricted nodes, escaped, in document order.
RECURSIVE ClaimEscapedTexts(_)
ClaimEscapedTexts(nodes) ==
  IF nodes = <<>> THEN <<>>
  ELSE (IF Head(nodes).kind = "Text" THEN EscapeHtml(Head(nodes).text)
        ELSE ClaimEscapedTexts(Head(nodes).children))
         \o ClaimEscapedTexts(Tail(nodes))

\* C19: an Element is written as its opening tag with its attributes, then,
\* if and only if it has a child, its children in order and its closing tag;
\* an element without children gets neither; a document is written as its
\* roots in order.
C19_ClosingTagOnlyWithChildren ==
  Formatted =>
    /\ ClaimTags(html[1], 1) = ClaimExpectedTags(doc[1][1])
    /\ ClaimOutsideTags(html[1], 1) = ClaimEscapedTexts(doc[1][1])

\* An element without children, written without closing tag, before an
\* element with a child.
C19_Witness ==
  /\ Formatted
  /\ doc[1][1] = << MdonHtmlElem(<<"p">>, <<>>, <<>>),
                    MdonHtmlElem(<<"p">>, <<>>, << MdonHtmlText(<<"x">>) >>) >>
  /\ html[1] = << "<", "p", ">", "<", "p", ">", "x", "<", "/", "p", ">" >>

InEscape == entry = "EscapeHtml"

Escaped == InEscape /\ html # <<>>

\* The escape sequences with the characters they stand for.
ClaimEscapes ==
  { << "&", <<"&", "a", "m", "p", ";">> >>,
    << "\n", <<"&", "n", "b", "s", "p", ";">> >>,
    << "\"", <<"&", "q", "u", "o", "t", ";">> >>,
    << "'", <<"&", "a", "p", "o", "s", ";">> >>,
    << "<", <<"&", "l", "t", ";">> >>,
    << ">", <<"&", "g", "t", ";">> >> }

\* The escapes whose sequence str has at offset k.
ClaimEscapesAt(str, k) ==
  { e \in ClaimEscapes :
      /\ k + Len(e[2]) - 1 <= Len(str)
      /\ SubSeq(str, k, k + Len(e[2]) - 1) = e[2] }

\* str from k on with each escape sequence replaced by its source character.
RECURSIVE ClaimUnescape(_, _)
ClaimUnescape(str, k) ==
  IF k > Len(str) THEN <<>>
  ELSE LET at == ClaimEscapesAt(str, k)
       IN  IF at = {} THEN << str[k] >> \o ClaimUnescape(str, k + 1)
           ELSE LET e == CHOOSE e \in at : TRUE
                IN  << e[1] >> \o ClaimUnescape(str, k + Len(e[2]))

ClaimEscapedChars == { e[1] : e \in ClaimEscapes }

\* C18: the escaped text has no newline, quote, apostrophe, "<" or ">" and
\* has "&" only at the start of one of the six escape sequences; a text
\* without any of the six characters is written as it is; replacing the
\* escape sequences by their characters recovers the text.
C18_Escaping ==
  Escaped =>
    /\ \A k \in DOMAIN html[1] :
         /\ html[1][k] \notin { "\n", "\"", "'", "<", ">" }
         /\ html[1][k] = "&" => ClaimEscapesAt(html[1], k) # {}
    /\ (\A k \in DOMAIN text : text[k] \notin ClaimEscapedChars) => html[1] = text
    /\ ClaimUnescape(html[1], 1) = text

\* A text that has an escape sequence in it already, and a newline.
C18_Witness ==
  /\ Escaped
  /\ text = << "&", "l", "t", ";", "\n", "'" >>
  /\ html[1] = << "&", "a", "m", "p", ";", "l", "t", ";",
                  "&", "n", "b", "s", "p", ";", "&", "a", "p", "o", "s", ";" >>

\* The serialized document was parsed and sanitized again.
Resanitized == Formatted /\ entry = "MdonHtmlDoc::from_html_str" /\ redoc # <<>>

\* C17: writing the sanitized document, parsing that HTML and sanitizing it
\* again yields a document equal to the first sanitized document.
C17_Idempotent == Resanitized => redoc = doc[1]

(* -------------------------- claims about IdentBuf ----------------------- *)

\* An IdentBuf was written and the text read back.
BufRoundTrip == entry = "IdentBuf::fmt" /\ parsed # <<>>

\* C20: reading back the text "{number}/{name}" written for an IdentBuf
\* succeeds and yields the same number and the same name, also for negative
\* numbers and for names that are empty or have a "/" in them.
C20_TextRoundTrip ==
  BufRoundTrip =>
    /\ parsed[1].kind = "Ok"
    /\ parsed[1].value.number = ident_buf.number
    /\ parsed[1].value.name = ident_buf.name

\* The least number with a name that has two "/" in it.
C20_Witness ==
  /\ BufRoundTrip
  /\ ident_buf = [number |-> I32Min, name |-> << "/", "a", "/" >>]
  /\ rendered[1] = << "-" >> \o Big8 \o << "/", "/", "a", "/" >>
  /\ parsed[1].kind = "Ok"

(* ---------------------- claims about the numbers scan ------------------- *)

\* C21: in the scan of the numbers segment, once a digit has been scanned
\* negative-enabled stays false, and no "-" scanned afterwards marks a
\* number as negative.
C21_NegDisabledForGood ==
  [][(InNumbers /\ found_digit) => (~neg_enabled' /\ (neg' => neg))]_vars

\* A character of the segment that is neither a digit nor "-".
ClaimDelimiter(c) == ~IsAsciiDigit(c) /\ c # "-"

\* C29: a number is parsed as negative only if a "-" was scanned, while
\* negative-enabled was true, between the end of the previous number and the
\* first digit of this number: before the first number, or after a
\* delimiter other than "-" that follows the previous number.
C29_SignNotCarriedOver ==
  InNumbers =>
    LET runs == ClaimRunsFrom(seg, 1)
    IN  \A k \in DOMAIN ns :
          (k <= Len(runs) /\ ns[k] < 0) =>
            LET from == IF k = 1 THEN 1 ELSE runs[k - 1][2] + 1
            IN  \E j \in from..(runs[k][1] - 1) :
                  /\ seg[j] = "-"
                  /\ k = 1 \/ \E i \in from..(j - 1) : ClaimDelimiter(seg[i])

\* The segment has a character that is neither digit nor "-" before its
\* first digit, or no digit at all.
ClaimNotNumberList(sg) ==
  \/ \A k \in DOMAIN sg : ~IsAsciiDigit(sg[k])
  \/ \E k \in DOMAIN sg :
       ClaimDelimiter(sg[k]) /\ \A j \in 1..(k - 1) : ~IsAsciiDigit(sg[j])

\* The text was split at ")" and the scan of the segment is over.
ClaimScanned == InNumbers /\ pc \notin { "parse_group", "parse_numbers", "scan" }

\* C22: if the trimmed numbers segment has a character that is neither an
\* ASCII digit nor "-" before its first digit, or has no digit at all,
\* parse_numbers returns no result.
C22_NotANumberList ==
  (ClaimScanned /\ ClaimNotNumberList(seg)) =>
    pc = "done" /\ result = "None" /\ n_range = <<>>

\* A comma before the first digit.
C22_Witness ==
  /\ ClaimScanned
  /\ seg = << ",", "1" >>
  /\ result = "None"

(* ------------------------- claims about parse_names --------------------- *)

\* The text handed to parse_names.
ClaimNamesInput == IF entry = "parse_names" THEN text ELSE rem

\* parse_names has returned.
ClaimNamesReturned ==
  \/ entry = "parse_names" /\ pc = "done"
  \/ /\ entry = "parse_group"
     /\ \/ pc = "robots"
        \/ pc = "done" /\ result = "Some"
        \/ pc = "done" /\ result = "None" /\ n_range # <<>>

\* parse_names has returned None.
ClaimNamesNone == pc = "done" /\ result = "None"

\* All matches of BOT_RE in the text, from left to right.
ClaimAllMatches(str) == BotMatchesFrom(str, 1, Len(str))

ClaimMin(a, b) == IF a < b THEN a ELSE b

\* C23: parse_names returns no result iff the text has no bot match;
\* otherwise the fully matched names it returns are the first
\* min(target_n, number of matches) matches from left to right, each with a
\* non-empty prefix, and the remainder is the text after the last of them.
C23_CollectsFirstMatches ==
  ClaimNamesReturned =>
    LET input == ClaimNamesInput
        all == ClaimAllMatches(input)
        n == ClaimMin(target_n, Len(all))
        extra == Len(names) - n
    IN  /\ ClaimNamesNone <=> all = <<>>
        /\ ~ClaimNamesNone =>
             /\ extra >= 0
             /\ \A k \in 1..n :
                  /\ names[extra + k].prefix = Slice(input, all[k].start, all[k].bot - 1)
                  /\ names[extra + k].suffix = Slice(input, all[k].bot, all[k].tend)
                  /\ names[extra + k].prefix # <<>>
             /\ n >= 1 /\ s = From(input, all[n].end + 1)

\* parse_names has returned names.
ClaimNamesSome == ClaimNamesReturned /\ ~ClaimNamesNone

\* The first offset >= k at which w occurs in str, or 0.
RECURSIVE ClaimOccurrence(_, _, _)
ClaimOccurrence(str, w, k) ==
  IF k + Len(w) - 1 > Len(str) THEN 0
  ELSE IF SubSeq(str, k, k + Len(w) - 1) = w THEN k
  ELSE ClaimOccurrence(str, w, k + 1)

\* The prefixes of the names from the j-th on occur in str, one after the
\* other, from offset k on.
RECURSIVE ClaimInOrder(_, _, _, _)
ClaimInOrder(ws, j, str, k) ==
  IF j > Len(ws) THEN TRUE
  ELSE LET at == ClaimOccurrence(str, ws[j].prefix, k)
       IN  at # 0 /\ ws[j].prefix # <<>>
             /\ ClaimInOrder(ws, j + 1, str, at + Len(ws[j].prefix))

ClaimSynthesized ==
  Len(names) - ClaimMin(target_n, Len(ClaimAllMatches(ClaimNamesInput)))

\* C30: parse_names reports used_partial only when at least one partial name
\* was added to the returned names; when the text before the first match
\* yields no qualifying token the flag is false and parse_group keeps the
\* plural markers of the fully matched names.
C30_PartialOnlyWhenAdded ==
  /\ ClaimNamesSome => (partial_names => ClaimSynthesized >= 1)
  /\ (Accepted /\ ClaimSynthesized = 0) =>
       \A k \in DOMAIN names : group.robots[k].name.plural = names[k].plural

(* ---------------------- claims about 32-bit arithmetic ------------------ *)

\* Some abbreviation among ns is reconstructed past the i32 range.
ClaimReconstructOverflows(nums) ==
  \E k \in 2..Len(nums) :
    /\ nums[k] > 0 /\ nums[k] < Abs(nums[1])
    /\ Reconstruct(nums[1], nums[k]).overflow

\* C28: when every token of the numbers segment fits in an i32, parse_group
\* completes without 32-bit signed overflow, neither wrapping nor aborting:
\* not in the reconstruction major + n * sign(first), not in the width
\* end - start, not in the numbering min + i.
C28_NoOverflow ==
  InGroup =>
    /\ result # "panic"
    /\ pc \in { "num_numbers", "parse_names", "robots", "done" } =>
         ~ClaimReconstructOverflows(ns)
    /\ n_range # <<>> => ~SubI32(RangeMax, RangeMin).overflow
    /\ result = "Some" => ~RobotsOverflow(names, RangeMin)

(* --------------- claims about the nodes that are not converted ---------- *)

ClaimLeafKinds == { "Doctype", "Comment", "ProcessingInstruction" }

\* The source nodes without the doctype, comment and processing-instruction
\* nodes and without the Document nodes, whatever is below them.
RECURSIVE ClaimWithoutOthers(_)
ClaimWithoutOthers(nodes) ==
  IF nodes = <<>> THEN <<>>
  ELSE LET node == Head(nodes)
       IN  (IF node.kind \in ClaimLeafKinds \cup { "Document" } THEN <<>>
            ELSE << [node EXCEPT !.children = ClaimWithoutOthers(node.children)] >>)
             \o ClaimWithoutOthers(Tail(nodes))

\* The source nodes without the doctype, comment and processing-instruction
\* nodes, and with every Document node made an element that is not
\* allow-listed, which stands for its converted children.
RECURSIVE ClaimThroughDocuments(_)
ClaimThroughDocuments(nodes) ==
  IF nodes = <<>> THEN <<>>
  ELSE LET node == Head(nodes)
           below == ClaimThroughDocuments(node.children)
       IN  (IF node.kind \in ClaimLeafKinds THEN <<>>
            ELSE IF node.kind = "Document" THEN << ElementNode(Span, <<>>, below) >>
            ELSE << [node EXCEPT !.children = below] >>)
             \o ClaimThroughDocuments(Tail(nodes))

\* C25 as stated: doctype, comment and processing-instruction nodes
\* contribute no output node, and a document node contributes none of itself
\* while its children are converted, at the root and nested below it alike.
C25_DocumentsAnywhere ==
  Sanitized =>
    doc[1] = from_markup5ever_node(
               [dom EXCEPT !.children = ClaimThroughDocuments(dom.children)], depth)

\* C25 (amended): doctype, comment and processing-instruction nodes
\* contribute no output node; the document node at the root contributes none
\* of itself while its children are converted; a document node nested below
\* the root contributes no output node and its children are not converted.
C25_RootDocumentOnly ==
  Sanitized =>
    doc[1] = from_markup5ever_node(
               [dom EXCEPT !.children = ClaimWithoutOthers(dom.children)], depth)

\* A Document node below the root, with a text in it and a budget that
\* reaches the text: the text is not in the sanitized document.
C25_Witness ==
  /\ Sanitized
  /\ dom = DocumentNode(<< TextNode(<<"x">>), DocumentNode(<< TextNode(<<"y">>) >>) >>)
  /\ depth >= 2
  /\ doc[1][1] = << MdonHtmlText(<<"x">>) >>

(* ------------------- claims about the two sanitizers -------------------- *)

InPost == entry = "PostHtmlDoc::from_markup5ever_node"

\* C26: for every generic tree and every max_depth PostHtmlDoc and
\* MdonHtmlDoc give the same result: both none, or the same restricted tree
\* (tags, filtered attribute lists in order, merged texts), and the same
\* serialized string.
C26_SameAsMdonHtmlDoc ==
  InPost =>
    /\ doc # <<>> => doc[1] = from_markup5ever_node(dom, depth)
    /\ html # <<>> =>
         html[1] = MdonHtmlDocFmt(from_markup5ever_node(dom, depth)[1])

\* An ol with an attribute for another tag and one of its own, both
\* recognized: only its own is kept and written, its value escaped.
C26_Witness ==
  /\ InPost
  /\ dom = DocumentNode(<< ElementNode(<<"O", "L">>,
                             << << <<"h", "r", "e", "f">>, <<"1">> >>,
                                << <<"s", "t", "a", "r", "t">>, <<"'", "2">> >> >>,
                             << TextNode(<<"x">>) >>) >>)
  /\ depth = 2
  /\ html = << << "<", "o", "l", " ", "s", "t", "a", "r", "t", "=", "'",
                 "&", "a", "p", "o", "s", ";", "2", "'", ">", "x",
                 "<", "/", "o", "l", ">" >> >>

(* ---------------------- claims about parse_robot_doc -------------------- *)

InRobotDoc == entry = "parse_robot_doc"

\* The document starts with a P element that starts with a Text node.
ClaimStartsWithPost(roots) ==
  /\ roots # <<>>
  /\ roots[1].kind = "Element" /\ roots[1].tag = <<"p">>
  /\ roots[1].children # <<>>
  /\ roots[1].children[1].kind = "Text"

\* new is old but for the first child of the first root, which is a Text
\* with the body.
ClaimOnlyFirstTextReplaced(old, new, body) ==
  /\ Len(new) = Len(old)
  /\ \A k \in 2..Len(old) : new[k] = old[k]
  /\ new[1].kind = "Element"
  /\ new[1].tag = old[1].tag
  /\ new[1].attrs = old[1].attrs
  /\ Len(new[1].children) = Len(old[1].children)
  /\ new[1].children[1] = [kind |-> "Text", text |-> body]
  /\ \A k \in 2..Len(old[1].children) : new[1].children[k] = old[1].children[k]

\* parse_robot_doc has returned.
RobotDocReturned ==
  InRobotDoc /\ pc = "done" /\ (result = "None" \/ redoc # <<>>)

\* What holds of parse_robot_doc in every state: parse_group is given the
\* leading text, and what is returned is as C27 says.
C27_RobotDocStates ==
  /\ (InRobotDoc /\ pc # "parse_robot_doc" /\ ClaimStartsWithPost(doc[1])) =>
       text = doc[1][1].children[1].text
  /\ RobotDocReturned =>
       /\ ~ClaimStartsWithPost(doc[1]) => result = "None" /\ text = <<>>
       /\ result = "None" => redoc = <<>>
       /\ redoc # <<>> =>
            /\ ClaimStartsWithPost(doc[1])
            /\ result = "Some"
            /\ ClaimOnlyFirstTextReplaced(doc[1], redoc[1], group.body)

\* C27: parse_robot_doc leaves its input document unmodified; when it
\* succeeds the new document differs from the input only in the first child
\* of the first root, a Text with the parsed body in place of the leading
\* Text, the other roots, the first element's tag and attributes and its
\* other children being the same in the same order; it returns no result
\* when the first root is not a P element whose first child is a Text, or
\* when parse_group, which is given that text, returns none.
C27_OnlyLeadingTextReplaced ==
  /\ []C27_RobotDocStates
  /\ [][InRobotDoc => doc' = doc]_vars

\* A post of two robots with nodes after its text and roots after its
\* paragraph: the text is replaced by the body, which is empty, and the rest
\* is as it was.
C27_Witness ==
  /\ RobotDocReturned
  /\ redoc # <<>>
  /\ Len(doc[1]) = 3 /\ Len(redoc[1]) = 3
  /\ doc[1][1].children[1].text
       = << "7", "-", "8", ")", " ", "S", "a", "-", " ", "A", "a", "b", "o", "t", " " >>
  /\ Len(group.robots) = 2
  /\ redoc[1][1].children[1].text = <<>>
  /\ redoc[1][1].children[2].tag = <<"b", "r">>

============================================================================
